---- MODULE Spec2Model ----
(***************************************************************************)
(* A model of the http-proxy core: the ProxyServer facade with its two     *)
(* per-instance pass lists, the web() and ws() handlers that run them, the *)
(* incoming passes, and the web stream pass with its error handlers.       *)
(*                                                                         *)
(* Strings whose characters the code inspects (header values) are          *)
(* sequences of one-character strings; header maps and option objects are  *)
(* functions whose domain is the set of keys that are present.             *)
(***************************************************************************)
EXTENDS Integers, Sequences, FiniteSets, TLC

VARIABLES
  arrays,          \* the heap of pass arrays: arrays[r] is the array with reference r
  servers,         \* the ProxyServer instances constructed so far, in order, each
                   \* with its options, its pass arrays and its 'error' listeners
  thrown,          \* the error the last facade call threw to its caller ("" if none)
  lastCall,        \* what the last web()/ws() call did
  tx,              \* the web transaction set up by the web stream pass
  events,          \* server.emit calls of the transaction, in order
  clbCalls,        \* calls of the per-call error callback, in order
  listenerCalls,   \* deliveries of 'error' events to listeners other than onError
  uncaught,        \* errors onError rethrew to the code that emitted them
  invoked          \* invocations of the error handlers made by createErrorHandler

facadeVars == <<arrays, servers, thrown, lastCall>>
webVars == <<tx, events, clbCalls, listenerCalls, uncaught, invoked>>
vars == <<arrays, servers, thrown, lastCall, tx, events, clbCalls,
          listenerCalls, uncaught, invoked>>

-----------------------------------------------------------------------------
(* Bounds of the model *)

MaxServers == 2
MaxInserts == 2
MaxCallInserts == 1
MaxErrors == 2
MaxListeners == 1

-----------------------------------------------------------------------------
(* String literals *)

S_empty == <<>>
S_0 == <<"0">>
S_5 == <<"5">>
S_80 == <<"8", "0">>
S_443 == <<"4", "4", "3">>
S_comma == <<",">>
S_http == <<"h", "t", "t", "p">>
S_https == <<"h", "t", "t", "p", "s">>
S_ws == <<"w", "s">>
S_wss == <<"w", "s", "s">>
S_close == <<"c", "l", "o", "s", "e">>
S_upgrade == <<"u", "p", "g", "r", "a", "d", "e">>
S_Upgrade == <<"U", "p", "g", "r", "a", "d", "e">>
S_websocket == <<"w", "e", "b", "s", "o", "c", "k", "e", "t">>
S_WebSocket == <<"W", "e", "b", "S", "o", "c", "k", "e", "t">>
S_h2c == <<"h", "2", "c">>
S_chunked == <<"c", "h", "u", "n", "k", "e", "d">>
S_keepalive == <<"k", "e", "e", "p", "-", "a", "l", "i", "v", "e">>
S_addr == <<"1", "0", ".", "0", ".", "0", ".", "1">>
S_addr2 == <<"1", "0", ".", "0", ".", "0", ".", "2">>
S_host == <<"a", ".", "b">>
S_hostPort == <<"a", ".", "b", ":", "8", "1">>
S_colonChar == <<":">>
S_slash == <<"/">>
S_question == <<"?">>
S_undefined == <<"u", "n", "d", "e", "f", "i", "n", "e", "d">>

DigitChars == <<"0", "1", "2", "3", "4", "5", "6", "7", "8", "9">>

UpperCase == <<"A", "B", "C", "D", "E", "F", "G", "H", "I", "J", "K", "L", "M",
               "N", "O", "P", "Q", "R", "S", "T", "U", "V", "W", "X", "Y", "Z">>
LowerCase == <<"a", "b", "c", "d", "e", "f", "g", "h", "i", "j", "k", "l", "m",
               "n", "o", "p", "q", "r", "s", "t", "u", "v", "w", "x", "y", "z">>

\* String.prototype.toLowerCase, one character
toLowerCaseChar(c) ==
  IF \E i \in 1..Len(UpperCase) : UpperCase[i] = c
  THEN LowerCase[CHOOSE i \in 1..Len(UpperCase) : UpperCase[i] = c]
  ELSE c

toLowerCase(s) == [i \in 1..Len(s) |-> toLowerCaseChar(s[i])]

\* the decimal string of a number, as string concatenation makes it
RECURSIVE NumberToString(_)
NumberToString(n) ==
  IF n < 10 THEN <<DigitChars[n + 1]>>
  ELSE NumberToString(n \div 10) \o <<DigitChars[(n % 10) + 1]>>

IsDigit(c) == c \in {"0", "1", "2", "3", "4", "5", "6", "7", "8", "9"}
IsSpace(c) == c \in {" ", "\t"}

-----------------------------------------------------------------------------
(* Objects: a function from the keys that are present to their values *)

Empty == [k \in {} |-> FALSE]

\* obj[k] = v
Put(obj, k, v) == [x \in DOMAIN obj \cup {k} |-> IF x = k THEN v ELSE obj[x]]

\* delete obj[k]
Delete(obj, k) == [x \in DOMAIN obj \ {k} |-> obj[x]]

AssignReversed(a, b) == [x \in DOMAIN a \cup DOMAIN b |-> IF x \in DOMAIN a THEN a[x] ELSE b[x]]

\* Object.assign({}, a, b) and { ...a, ...b }
Assign(a, b) == [x \in DOMAIN a \cup DOMAIN b |-> IF x \in DOMAIN b THEN b[x] ELSE a[x]]

\* the truthiness of a string-valued property: neither undefined nor ''
HeaderTruthy(headers, k) == k \in DOMAIN headers /\ headers[k] # S_empty

\* headers[k] || ''
HeaderOrEmpty(headers, k) == IF HeaderTruthy(headers, k) THEN headers[k] ELSE S_empty

-----------------------------------------------------------------------------
(* Option values.  target and forward are undefined, a URL string or a     *)
(* structured object; url.parse turns the string into the object.          *)

UndefinedV == [kind |-> "undefined"]
TargetUrl ==
  [protocol |-> S_http \o S_colonChar, host |-> <<"t", ":", "8", "0", "8", "0">>,
   hostname |-> <<"t">>, port |-> <<"8", "0", "8", "0">>, path |-> S_slash]
ForwardUrl ==
  [protocol |-> S_http \o S_colonChar, host |-> <<"f", ":", "8", "0", "8", "1">>,
   hostname |-> <<"f">>, port |-> <<"8", "0", "8", "1">>, path |-> S_slash]
TargetStr ==
  [kind |-> "string",
   str |-> S_http \o <<":", "/", "/", "t", ":", "8", "0", "8", "0", "/">>]
ForwardStr ==
  [kind |-> "string",
   str |-> S_http \o <<":", "/", "/", "f", ":", "8", "0", "8", "1", "/">>]
TargetObj == [kind |-> "object", url |-> TargetUrl]
ForwardObj == [kind |-> "object", url |-> ForwardUrl]

\* the position of the first c in s, 0 if there is none
First(s, c) ==
  IF \E i \in DOMAIN s : s[i] = c
  THEN CHOOSE i \in DOMAIN s : s[i] = c /\ \A j \in 1..(i - 1) : s[j] # c
  ELSE 0

\* url.parse of a string scheme://host[:port][/path]: a Url with the scheme
\* and its colon, the authority, its name and its port (absent when there is
\* none), and the path, '/' when the string has none; a string without ://
\* is a path
parse_url(v) ==
  IF ~\E i \in 1..(Len(v.str) - 2) : SubSeq(v.str, i, i + 2) = <<":", "/", "/">>
  THEN [kind |-> "url", url |-> [path |-> v.str]] ELSE
  LET colon == First(v.str, ":")
      rest == SubSeq(v.str, colon + 3, Len(v.str))
      slash == First(rest, "/")
      host == IF slash = 0 THEN rest ELSE SubSeq(rest, 1, slash - 1)
      path == IF slash = 0 THEN S_slash ELSE SubSeq(rest, slash, Len(rest))
      p == First(host, ":")
      named == [protocol |-> SubSeq(v.str, 1, colon), host |-> host,
                hostname |-> IF p = 0 THEN host ELSE SubSeq(host, 1, p - 1),
                path |-> path]
  IN [kind |-> "url",
      url |-> IF p = 0 THEN named
              ELSE named @@ [port |-> SubSeq(host, p + 1, Len(host))]]

\* the truthiness of options[k] for k target or forward
OptTruthy(options, k) == k \in DOMAIN options /\ options[k].kind # "undefined"

\* the truthiness of a boolean option (an object-valued option such as agent
\* is TRUE when it is set)
FlagTruthy(options, k) == k \in DOMAIN options /\ options[k] = TRUE

\* the truthiness of a numeric option
NumTruthy(options, k) == k \in DOMAIN options /\ options[k] # 0

-----------------------------------------------------------------------------
(* lib/common.ts *)

hasEncryptedConnection(req) == req.encrypted

RECURSIVE DigitRun(_, _)
DigitRun(s, i) ==
  IF i <= Len(s) /\ IsDigit(s[i]) THEN <<s[i]>> \o DigitRun(s, i + 1) ELSE <<>>

\* host.match(/:(\d+)/): the digits after the first colon that digits follow
RECURSIVE MatchPort(_, _)
MatchPort(s, i) ==
  IF i > Len(s) THEN <<>>
  ELSE IF s[i] = ":" /\ DigitRun(s, i + 1) # <<>> THEN DigitRun(s, i + 1)
  ELSE MatchPort(s, i + 1)

getPort(req) ==
  LET res == IF HeaderTruthy(req.headers, "host")
             THEN MatchPort(req.headers["host"], 1) ELSE <<>>
  IN IF res # <<>> THEN res
     ELSE IF hasEncryptedConnection(req) THEN S_443 ELSE S_80

RECURSIVE SkipSpace(_, _)
SkipSpace(s, i) == IF i <= Len(s) /\ IsSpace(s[i]) THEN SkipSpace(s, i + 1) ELSE i

StartsWithLower(s, i, w) ==
  /\ i + Len(w) - 1 <= Len(s)
  /\ \A k \in 1..Len(w) : toLowerCaseChar(s[i + k - 1]) = w[k]

\* /(^|,)\s*upgrade\s*($|,)/i.test(s)
upgradeHeader(s) ==
  \E p \in 1..(Len(s) + 1) :
    /\ p = 1 \/ s[p - 1] = ","
    /\ LET a == SkipSpace(s, p)
       IN /\ StartsWithLower(s, a, S_upgrade)
          /\ LET b == SkipSpace(s, a + Len(S_upgrade))
             IN b > Len(s) \/ s[b] = ","

\* s.indexOf(c) + 1
IndexOf(s, c) == First(s, c)

\* whether w is in s at position i
MatchAt(s, i, w) ==
  /\ i >= 1
  /\ i + Len(w) - 1 <= Len(s)
  /\ \A k \in 1..Len(w) : s[i + k - 1] = w[k]

\* the position of the first w in s, 0 if there is none
Search(s, w) ==
  IF \E i \in 1..(Len(s) + 1) : MatchAt(s, i, w)
  THEN CHOOSE i \in 1..(Len(s) + 1) :
         MatchAt(s, i, w) /\ \A j \in 1..(i - 1) : ~MatchAt(s, j, w)
  ELSE 0

\* s.replace(w, r) with a string pattern: the first w only
ReplaceFirst(s, w, r) ==
  LET i == Search(s, w)
  IN IF i = 0 THEN s
     ELSE SubSeq(s, 1, i - 1) \o r \o SubSeq(s, i + Len(w), Len(s))

\* s.split(c)
RECURSIVE Split(_, _, _)
Split(s, c, cur) ==
  IF s = <<>> THEN <<cur>>
  ELSE IF Head(s) = c THEN <<cur>> \o Split(Tail(s), c, <<>>)
  ELSE Split(Tail(s), c, Append(cur, Head(s)))

\* parts.join(sep)
RECURSIVE JoinWith(_, _)
JoinWith(parts, sep) ==
  IF parts = <<>> THEN <<>>
  ELSE IF Len(parts) = 1 THEN parts[1]
  ELSE parts[1] \o sep \o JoinWith(Tail(parts), sep)

\* s.replace(/\/+/g, '/')
RECURSIVE CollapseSlashes(_)
CollapseSlashes(s) ==
  IF Len(s) < 2 THEN s
  ELSE IF s[1] = "/" /\ s[2] = "/" THEN CollapseSlashes(Tail(s))
  ELSE <<s[1]>> \o CollapseSlashes(Tail(s))

urlJoinKeepSlashes(args) ==
  LET lastIndex == Len(args)
      lastSegs == Split(args[lastIndex], "?", <<>>)
      shifted == [args EXCEPT ![lastIndex] = Head(lastSegs)]
      joined == JoinWith(SelectSeq(shifted, LAMBDA a : a # <<>>), S_slash)
  IN JoinWith(<<joined>> \o Tail(lastSegs), S_question)

\* urlJoin(...args)
urlJoin(args) ==
  LET lastIndex == Len(args)
      lastSegs == Split(args[lastIndex], "?", <<>>)
      shifted == [args EXCEPT ![lastIndex] = Head(lastSegs)]
      joined == JoinWith(SelectSeq(shifted, LAMBDA a : a # <<>>), S_slash)
      replaced == ReplaceFirst(
                    ReplaceFirst(CollapseSlashes(joined),
                                 S_http \o <<":", "/">>, S_http \o <<":", "/", "/">>),
                    S_https \o <<":", "/">>, S_https \o <<":", "/", "/">>)
  IN JoinWith(<<replaced>> \o Tail(lastSegs), S_question)

\* url.parse(u).path for the request urls of the model: a path with its
\* query, without the hash, and for an absolute http or https url without
\* the scheme and the authority; '' stands for null
parsePath(u) ==
  LET h == IndexOf(u, "#")
      noHash == IF h = 0 THEN u ELSE SubSeq(u, 1, h - 1)
      scheme == IF MatchAt(noHash, 1, S_http \o <<":", "/", "/">>) THEN Len(S_http) + 3
                ELSE IF MatchAt(noHash, 1, S_https \o <<":", "/", "/">>) THEN Len(S_https) + 3
                ELSE 0
      rest == SubSeq(noHash, scheme + 1, Len(noHash))
      ends == {i \in DOMAIN rest : rest[i] \in {"/", "?"}}
      first == IF ends = {} THEN Len(rest) + 1
               ELSE CHOOSE i \in ends : \A j \in ends : i <= j
      after == SubSeq(rest, first, Len(rest))
  IN IF scheme = 0 THEN noHash
     ELSE IF after # <<>> /\ after[1] = "/" THEN after
     ELSE S_slash \o after

isSSLAnchored(protocol) ==
  protocol \in {S_https \o S_colonChar, S_wss \o S_colonChar}

\* isSSL.test(protocol) for /^https|wss/: https at the start, or wss anywhere
isSSL(protocol) == MatchAt(protocol, 1, S_https) \/ Search(protocol, S_wss) # 0

\* whether a string-valued property of an object is truthy
Truthy(obj, k) == k \in DOMAIN obj /\ obj[k] # S_empty

\* String(obj.protocol), as RegExp.prototype.test reads its argument
ProtocolOf(upstream) ==
  IF "protocol" \in DOMAIN upstream THEN upstream["protocol"] ELSE S_undefined

\* the first argument of setupOutgoing: options.ssl itself, or another object
SslItself == [alias |-> TRUE, obj |-> Empty]
Another(obj) == [alias |-> FALSE, obj |-> obj]

\* the object options.ssl, {} standing for none
SslOf(options) == IF "ssl" \in DOMAIN options THEN options["ssl"] ELSE Empty

\* options.ssl || {}
SslOrNew(options) == IF "ssl" \in DOMAIN options THEN SslItself ELSE Another(Empty)

\* outgoing[k] = from[k]; an assignment of undefined leaves the property absent
Copy(out, k, from) == IF k \in DOMAIN from THEN Put(out, k, from[k]) ELSE Delete(out, k)

CopiedFields ==
  {"host", "hostname", "socketPath", "pfx", "key", "passphrase", "cert", "ca",
   "ciphers", "secureProtocol"}

\* the forEach over the ten properties of the upstream
CopyFields(out, upstream) ==
  [k \in (DOMAIN out \ CopiedFields) \cup (CopiedFields \cap DOMAIN upstream) |->
     IF k \in CopiedFields THEN upstream[k] ELSE out[k]]

\* the number a string of decimal digits writes
RECURSIVE ParseNat(_)
ParseNat(ds) ==
  IF ds = <<>> THEN 0
  ELSE ParseNat(SubSeq(ds, 1, Len(ds) - 1)) * 10
         + (CHOOSE d \in 0..9 : DigitChars[d + 1] = ds[Len(ds)])

\* required(port, protocol) of requires-port, port given as a number: whether
\* the port is not the default of the protocol
required(port, protocol) ==
  LET scheme == Head(Split(protocol, ":", <<>>))
  IN IF port = 0 THEN FALSE
     ELSE IF scheme \in {S_http, S_ws} THEN port # 80
     ELSE IF scheme \in {S_https, S_wss} THEN port # 443
     ELSE TRUE

\* hasPort(host)
hasPort(host) == IndexOf(host, ":") # 0

connectionHeaderSubstring(merged, agent) ==
  IF ~agent
  THEN IF "connection" \notin DOMAIN merged
          \/ Search(toLowerCase(merged["connection"]), S_upgrade) = 0
       THEN Put(merged, "connection", S_close)
       ELSE merged
  ELSE merged

\* if (!outgoing.agent) { if (typeof headers.connection !== 'string' ||
\* !upgradeHeader.test(headers.connection)) headers.connection = 'close'; }
connectionHeader(merged, agent) ==
  IF ~agent
  THEN IF "connection" \notin DOMAIN merged \/ ~upgradeHeader(merged["connection"])
       THEN Put(merged, "connection", S_close)
       ELSE merged
  ELSE merged

outgoingPathNoPrepend(options, req, upstream) ==
  LET outgoingPath == IF ~FlagTruthy(options, "toProxy") THEN parsePath(req.url) ELSE req.url
  IN urlJoin(<<S_empty, IF ~FlagTruthy(options, "ignorePath") THEN outgoingPath ELSE S_empty>>)

\* urlJoin(targetPath, outgoingPath) of setupOutgoing
outgoingPath(options, req, upstream) ==
  LET targetPath == IF ~("prependPath" \in DOMAIN options /\ options["prependPath"] = FALSE)
                    THEN (IF Truthy(upstream, "path") THEN upstream["path"] ELSE S_empty)
                    ELSE S_empty
      path == IF ~FlagTruthy(options, "toProxy") THEN parsePath(req.url) ELSE req.url
  IN urlJoin(<<targetPath, IF ~FlagTruthy(options, "ignorePath") THEN path ELSE S_empty>>)

\* if (options.ssl?.ca) outgoing.ca = options.ssl.ca; when outgoing is
\* options.ssl itself, options.ssl is the object as it is by now
caFromSsl(out, options, alias) ==
  IF alias THEN out
  ELSE IF "ssl" \in DOMAIN options /\ Truthy(options["ssl"], "ca")
  THEN Put(out, "ca", options["ssl"]["ca"])
  ELSE out

\* if (options.changeOrigin) headers.host = required(port, protocol) &&
\* !hasPort(host) ? host + ':' + port : host || undefined; host.indexOf and
\* protocol.split throw a TypeError on undefined
changeOrigin(out, upstream) ==
  LET explicit == Truthy(upstream, "port")
      port == IF explicit THEN ParseNat(upstream["port"]) ELSE out["port"]
      text == IF explicit THEN upstream["port"] ELSE NumberToString(out["port"])
      threw == [out |-> out, threw |-> "TypeError"]
      host(v) == [out |-> Put(out, "headers", Put(out["headers"], "host", v)), threw |-> ""]
  IN IF "protocol" \notin DOMAIN upstream THEN threw
     ELSE IF required(port, upstream["protocol"])
     THEN IF "host" \notin DOMAIN out THEN threw
          ELSE IF ~hasPort(out["host"]) THEN host(out["host"] \o S_colonChar \o text)
          ELSE host(out["host"])
     ELSE IF Truthy(out, "host") THEN host(out["host"])
     ELSE [out |-> Put(out, "headers", Delete(out["headers"], "host")), threw |-> ""]

\* setupOutgoing(outgoing, options, req, forward): the object it returns, the
\* options as it leaves them (options.ssl is that object when outgoing is
\* options.ssl), and what it threw.  The statements of the function are the
\* lines of the chain from its last line up: each takes the object the line
\* below it made.
setupOutgoing(outgoing, options, req, forward) ==
  LET role == IF forward = "forward" THEN "forward" ELSE "target"
      upstream == options[role].url
      ssl == isSSL(ProtocolOf(upstream))
      agent == FlagTruthy(options, "agent")
  IN CHOOSE r \in
       { [outgoing |-> done.out, threw |-> done.threw,
          options |-> IF outgoing.alias THEN Put(options, "ssl", done.out) ELSE options] :
         done \in { IF FlagTruthy(options, "changeOrigin") THEN changeOrigin(s10, upstream)
                    ELSE [out |-> s10, threw |-> ""] :
         s10 \in { Put(s9, "path", outgoingPath(options, req, upstream)) :
         s9 \in { Put(s8, "headers", connectionHeader(s8["headers"], agent)) :
         s8 \in { Copy(s7b, "localAddress", options) :
         s7b \in { Put(s7, "agent", agent) :
         s7 \in { IF ssl
                  THEN Put(s6, "rejectUnauthorized",
                           IF "secure" \notin DOMAIN options THEN TRUE ELSE options["secure"])
                  ELSE s6 :
         s6 \in { caFromSsl(s5, options, outgoing.alias) :
         s5 \in { IF Truthy(options, "auth") THEN Put(s4, "auth", options["auth"]) ELSE s4 :
         s4 \in { Put(s3, "headers", IF "headers" \in DOMAIN options
                                     THEN Assign(req.headers, options["headers"])
                                     ELSE req.headers) :
         s3 \in { Put(s2, "method", IF "method" \in DOMAIN options THEN options["method"]
                                    ELSE req.method) :
         s2 \in { CopyFields(s1, upstream) :
         s1 \in { Put(IF outgoing.alias THEN options["ssl"] ELSE outgoing.obj, "port",
                      IF Truthy(upstream, "port") THEN upstream["port"]
                      ELSE IF ssl THEN 443 ELSE 80) } } } } } } } } } } } } } :
       TRUE

-----------------------------------------------------------------------------
(* Passes.  A pass is a function object: fn is its identity, name its name. *)
(* The context a call threads through its passes holds the client request, *)
(* what the passes did to the client response or socket, the upstream      *)
(* requests they created and the events they emitted.                      *)

Pass(fn, name) == [fn |-> fn, name |-> name]

P_deleteLength == Pass("web.deleteLength", "deleteLength")
P_timeout == Pass("web.timeout", "timeout")
P_webXHeaders == Pass("web.XHeaders", "XHeaders")
P_webStream == Pass("web.stream", "stream")
P_checkMethodAndHeader == Pass("ws.checkMethodAndHeader", "checkMethodAndHeader")
P_wsXHeaders == Pass("ws.XHeaders", "XHeaders")
P_wsStream == Pass("ws.stream", "stream")

\* passes a caller inserts: one that returns nothing, one that returns true
P_userCont == Pass("userCont", "userCont")
P_userHalt == Pass("userHalt", "userHalt")
UserPasses == {P_userCont, P_userHalt}

Result(ctx, ret) == [ctx |-> ctx, ret |-> ret]

\* web-incoming deleteLength
deleteLength(ctx) ==
  LET req == ctx.req
  IN IF req.method \in {"DELETE", "OPTIONS"} /\ ~HeaderTruthy(req.headers, "content-length")
     THEN Result([ctx EXCEPT !.req.headers =
                    Delete(Put(req.headers, "content-length", S_0), "transfer-encoding")],
                 FALSE)
     ELSE Result(ctx, FALSE)

timeoutNotArmed(ctx, options) == Result(ctx, FALSE)

\* web-incoming timeout
timeout(ctx, options) ==
  IF NumTruthy(options, "timeout")
  THEN Result([ctx EXCEPT !.socketTimeout = options["timeout"]], FALSE)
  ELSE Result(ctx, FALSE)

AppendForwardedAlone(headers, key, value) == Put(headers, key, value)

\* req.headers['x-forwarded-' + header] = (old || '') + (old ? ',' : '') + value
AppendForwarded(headers, key, value) ==
  Put(headers, key,
      HeaderOrEmpty(headers, key)
        \o (IF HeaderTruthy(headers, key) THEN S_comma ELSE S_empty)
        \o value)

\* the forEach over for, port, proto
ForwardedFor(headers, values) ==
  LET h1 == AppendForwarded(headers, "x-forwarded-for", values.for)
      h2 == AppendForwarded(h1, "x-forwarded-port", values.port)
  IN AppendForwarded(h2, "x-forwarded-proto", values.proto)

\* web-incoming XHeaders
webXHeaders(ctx, options) ==
  IF ~FlagTruthy(options, "xfwd") THEN Result(ctx, FALSE)
  ELSE LET req == ctx.req
           encrypted == req.isSpdy \/ hasEncryptedConnection(req)
           values == [for |-> req.remoteAddress,
                      port |-> getPort(req),
                      proto |-> IF encrypted THEN S_https ELSE S_http]
           h == ForwardedFor(req.headers, values)
           host == IF HeaderTruthy(h, "x-forwarded-host") THEN h["x-forwarded-host"]
                   ELSE HeaderOrEmpty(h, "host")
       IN Result([ctx EXCEPT !.req.headers = Put(h, "x-forwarded-host", host)], FALSE)

checkMethodAndHeaderCaseSensitive(ctx) ==
  LET req == ctx.req
  IN IF req.method # "GET" \/ ~HeaderTruthy(req.headers, "upgrade")
     THEN Result([ctx EXCEPT !.socketDestroyed = TRUE], TRUE)
     ELSE IF req.headers["upgrade"] # S_websocket
     THEN Result([ctx EXCEPT !.socketDestroyed = TRUE], TRUE)
     ELSE Result(ctx, FALSE)

\* ws-incoming checkMethodAndHeader
checkMethodAndHeader(ctx) ==
  LET req == ctx.req
  IN IF req.method # "GET" \/ ~HeaderTruthy(req.headers, "upgrade")
     THEN Result([ctx EXCEPT !.socketDestroyed = TRUE], TRUE)
     ELSE IF toLowerCase(req.headers["upgrade"]) # S_websocket
     THEN Result([ctx EXCEPT !.socketDestroyed = TRUE], TRUE)
     ELSE Result(ctx, FALSE)

\* ws-incoming XHeaders
wsXHeaders(ctx, options) ==
  IF ~FlagTruthy(options, "xfwd") THEN Result(ctx, FALSE)
  ELSE LET req == ctx.req
           values == [for |-> req.remoteAddress,
                      port |-> getPort(req),
                      proto |-> IF hasEncryptedConnection(req) THEN S_wss ELSE S_ws]
       IN Result([ctx EXCEPT !.req.headers = ForwardedFor(req.headers, values)], FALSE)

\* server.emit(name, ...): the event, the error code and the upstream descriptor
\* among its arguments ("" and NoUrl when it carries none)
Emitted(name, err, url) == [name |-> name, err |-> err, url |-> url]

\* options.target || options.forward
TargetOrForward(options) ==
  IF OptTruthy(options, "target") THEN options["target"].url ELSE options["forward"].url

\* emitter.on('error', handler): the listener a pass registers on the client
\* request or on an upstream request; handler names the closure that
\* createErrorHandler made and url the descriptor the closure holds
Registered(emitter, handler, url) == [on |-> emitter, handler |-> handler, url |-> url]

\* a step of a transaction other than a change of its own state: an event
\* emitted, an upstream request created, a stream piped into another, the
\* client response ended, a web-outgoing pass called
Step(op, a, b) == [op |-> op, a |-> a, b |-> b]

\* options.buffer || req
BodySource(options) == IF FlagTruthy(options, "buffer") THEN "buffer" ELSE "req"

\* server.emit('start', req, res, options.target || options.forward)
Started(ctx, options) ==
  [ctx EXCEPT !.events = Append(@, Emitted("start", "", TargetOrForward(options))),
              !.trace = Append(@, Step("emit", "start", ""))]

\* the options a stream pass reads: options.ssl is an object the passes of a
\* call share, and ctx.ssl holds what it holds now
Current(ctx, options) ==
  IF "ssl" \in DOMAIN options THEN Put(options, "ssl", ctx.ssl) ELSE options

\* (options.forward.protocol === 'https:' ? https : http) and the same of
\* options.target in the web stream pass: the client the request is made with
webClient(upstream) ==
  IF ProtocolOf(upstream) = S_https \o S_colonChar THEN "https" ELSE "http"

\* (isSSL(options.target?.protocol) ? https : http) in the ws stream pass, the
\* regular expression of lib/common.ts applied to the protocol
wsClient(upstream) == IF isSSL(ProtocolOf(upstream)) THEN "https" ELSE "http"

\* the context after setupOutgoing returned r for the request to a role, made
\* with a client
Requested(ctx, options, role, client, returned) ==
  CHOOSE c \in
    { IF r.threw # "" THEN [ctx EXCEPT !.threw = r.threw, !.ssl = SslOf(r.options)]
      ELSE [ctx EXCEPT
              !.out = Append(@, [role |-> role, url |-> options[role].url,
                                 client |-> client, outgoing |-> r.outgoing]),
              !.ssl = SslOf(r.options)] :
      r \in {returned} } : TRUE

\* the forward request, its error handler on req and on itself, the body piped
Forwarded(ctx, options) ==
  CHOOSE c \in
    { IF requested.threw # "" THEN requested ELSE
      [requested EXCEPT
         !.listeners = @ \o <<Registered("req", "forwardError", options["forward"].url),
                              Registered("forwardReq", "forwardError", options["forward"].url)>>,
         !.trace = @ \o <<Step("request", "forwardReq", ""),
                          Step("pipe", BodySource(options), "forwardReq")>>] :
      requested \in
        {Requested(ctx, options, "forward", webClient(options["forward"].url),
                   setupOutgoing(SslOrNew(options), Current(ctx, options), ctx.req,
                                 "forward"))} } : TRUE

EarlyReturnNoEnd(ctx) == Result(ctx, TRUE)

\* if (!options.target) return res.end(); res.end() returns res, a truthy value
EarlyReturn(ctx) ==
  Result([ctx EXCEPT !.resEnded = TRUE, !.trace = Append(@, Step("end", "res", ""))], TRUE)

\* the target request, its error handler on req and on itself, the body piped
Targeted(ctx, options) ==
  CHOOSE c \in
    { IF requested.threw # "" THEN requested ELSE
      [requested EXCEPT
         !.listeners = @ \o <<Registered("req", "proxyError", options["target"].url),
                              Registered("proxyReq", "proxyError", options["target"].url)>>,
         !.trace = @ \o <<Step("request", "proxyReq", ""),
                          Step("pipe", BodySource(options), "proxyReq")>>] :
      requested \in
        {Requested(ctx, options, "target", webClient(options["target"].url),
                   setupOutgoing(SslOrNew(options), Current(ctx, options), ctx.req,
                                 "target"))} } : TRUE

webStreamStartLast(ctx, options) ==
  CHOOSE result \in
    { IF forwarded.threw # "" THEN Result(forwarded, FALSE)
      ELSE IF OptTruthy(options, "forward") /\ ~OptTruthy(options, "target")
      THEN EarlyReturn(Started(forwarded, options))
      ELSE Result(Started(Targeted(forwarded, options), options), FALSE) :
      forwarded \in
        {IF OptTruthy(options, "forward") THEN Forwarded(ctx, options) ELSE ctx} } : TRUE

\* web-incoming stream, up to its return: the start event, the forward request,
\* the early return when there is no target, the target request
webStream(ctx, options) ==
  CHOOSE result \in
    { IF forwarded.threw # "" THEN Result(forwarded, FALSE)
      ELSE IF OptTruthy(options, "forward") /\ ~OptTruthy(options, "target")
      THEN EarlyReturn(forwarded)
      ELSE Result(Targeted(forwarded, options), FALSE) :
      forwarded \in
        { IF OptTruthy(options, "forward") THEN Forwarded(started, options) ELSE started :
          started \in {Started(ctx, options)} } } : TRUE

\* ws-incoming stream, up to its return: the upstream request to the target (a
\* TypeError when there is no target to read), the proxyReqWs event.
\* proxyReq.end() returns the request, a truthy value.
wsStream(ctx, options) ==
  IF ~OptTruthy(options, "target")
  THEN Result([ctx EXCEPT !.threw = "TypeError"], FALSE)
  ELSE CHOOSE result \in
         { IF requested.threw # "" THEN Result(requested, FALSE)
           ELSE Result([requested EXCEPT !.events =
                          Append(@, Emitted("proxyReqWs", "", options["target"].url))],
                       TRUE) :
           requested \in
             {Requested(ctx, options, "target", wsClient(options["target"].url),
                        setupOutgoing(SslOrNew(options), Current(ctx, options), ctx.req,
                                      "target"))} } : TRUE

\* passes[i].call(this, req, res | socket, options, ...); the error callback a
\* call hands to its passes is kept in the record of the call
CallPass(pass, ctx, options) ==
  CASE pass.fn = "web.deleteLength" -> deleteLength(ctx)
    [] pass.fn = "web.timeout" -> timeout(ctx, options)
    [] pass.fn = "web.XHeaders" -> webXHeaders(ctx, options)
    [] pass.fn = "web.stream" -> webStream(ctx, options)
    [] pass.fn = "ws.checkMethodAndHeader" -> checkMethodAndHeader(ctx)
    [] pass.fn = "ws.XHeaders" -> wsXHeaders(ctx, options)
    [] pass.fn = "ws.stream" -> wsStream(ctx, options)
    [] pass.fn = "userHalt" -> Result(ctx, TRUE)
    [] OTHER -> Result(ctx, FALSE)

-----------------------------------------------------------------------------
(* The pass loop of the web() and ws() handlers *)

NewContext(req) ==
  [req |-> req, socketTimeout |-> 0, resEnded |-> FALSE, socketDestroyed |-> FALSE,
   out |-> <<>>, listeners |-> <<>>, events |-> <<>>, trace |-> <<>>, threw |-> "",
   ssl |-> Empty]

\* the context of a call whose options are finalOptions
CallContext(req, finalOptions) == [NewContext(req) EXCEPT !.ssl = SslOf(finalOptions)]

\* for (let i = 0; i < passes.length; i++) { if (passes[i].call(...)) break; }
\* i counts from 0 as in the code; ran lists the passes called, with the index
\* each had and the truthiness of what it returned
\* the passes called so far and the one just called
Ran(ran, i, pass, r) == Append(ran, [idx |-> i, fn |-> pass.fn, ret |-> r.ret])

RECURSIVE RunPassesNoBreak(_, _, _, _, _)
RunPassesNoBreak(passes, i, ctx, options, ran) ==
  IF ~(i < Len(passes)) THEN [ctx |-> ctx, ran |-> ran]
  ELSE CHOOSE run \in
         { IF r.ctx.threw # "" THEN [ctx |-> r.ctx, ran |-> Ran(ran, i, passes[i + 1], r)]
           ELSE RunPassesNoBreak(passes, i + 1, r.ctx, options, Ran(ran, i, passes[i + 1], r)) :
           r \in {CallPass(passes[i + 1], ctx, options)} } : TRUE

RECURSIVE RunPasses(_, _, _, _, _)
RunPasses(passes, i, ctx, options, ran) ==
  IF ~(i < Len(passes)) THEN [ctx |-> ctx, ran |-> ran]
  ELSE CHOOSE run \in
         { IF r.ctx.threw # "" THEN [ctx |-> r.ctx, ran |-> Ran(ran, i, passes[i + 1], r)]
           ELSE IF r.ret THEN [ctx |-> r.ctx, ran |-> Ran(ran, i, passes[i + 1], r)]
           ELSE RunPasses(passes, i + 1, r.ctx, options, Ran(ran, i, passes[i + 1], r)) :
           r \in {CallPass(passes[i + 1], ctx, options)} } : TRUE

NoArgument == [kind |-> "none"]
OptionsArgument(o) == [kind |-> "options", options |-> o]
FunctionArgument(f) == [kind |-> "function", fn |-> f]

\* typeof optionsOrCallback === 'function' ? {} : (optionsOrCallback ?? {})
RequestOptions(optionsOrCallback) ==
  IF optionsOrCallback.kind = "options" THEN optionsOrCallback.options ELSE Empty

\* typeof optionsOrCallback === 'function' ? optionsOrCallback : callback
ErrorCallback(optionsOrCallback, callback) ==
  IF optionsOrCallback.kind = "function" THEN optionsOrCallback.fn ELSE callback

\* Object.assign({}, options, requestOptions), then url.parse of a string
\* target or forward
FinalOptions(options, requestOptions) ==
  LET assigned == Assign(options, requestOptions)
  IN [k \in DOMAIN assigned |->
        IF k \in {"target", "forward"} /\ assigned[k].kind = "string"
        THEN parse_url(assigned[k]) ELSE assigned[k]]

\* !finalOptions.target && !finalOptions.forward
MissingUrl(finalOptions) ==
  ~OptTruthy(finalOptions, "target") /\ ~OptTruthy(finalOptions, "forward")

\* the record of a call: its arguments (req as it was passed), the list and the
\* options its passes were given, the passes it called and what they did
CallRecord(type, server, passes, req, optionsOrCallback, finalOptions, errorCallback, run) ==
  [type |-> type, server |-> server, passes |-> passes, req |-> req,
   optionsOrCallback |-> optionsOrCallback, options |-> finalOptions,
   errorCallback |-> errorCallback, ran |-> run.ran, ctx |-> run.ctx]

\* the options of the instances after a call on instance s: the copy
\* Object.assign makes is shallow, so its ssl is the object of this.options
\* unless the per-call options brought their own
OptionsAfter(all, s, optionsOrCallback, ctx) ==
  IF "ssl" \in DOMAIN all[s].options /\ "ssl" \notin DOMAIN RequestOptions(optionsOrCallback)
  THEN [all EXCEPT ![s].options = Put(@, "ssl", ctx.ssl)]
  ELSE all

\* the loop of a handler past its check of the options
HandlerRun(passes, req, finalOptions) ==
  IF MissingUrl(finalOptions) THEN [ctx |-> CallContext(req, finalOptions), ran |-> <<>>]
  ELSE RunPasses(passes, 0, CallContext(req, finalOptions), finalOptions, <<>>)

\* what a handler throws, and the record of the call
HandlerReturn(type, server, passes, req, optionsOrCallback, callback, finalOptions, run) ==
  [threw |-> IF MissingUrl(finalOptions) THEN "Must provide a proper URL as target"
             ELSE run.ctx.threw,
   call |-> CallRecord(type, server, passes, req, optionsOrCallback, finalOptions,
                       ErrorCallback(optionsOrCallback, callback), run)]

\* the function createWebProxyHandler returns; passes is this.webPasses
WebProxyHandler(server, options, passes, req, optionsOrCallback, callback) ==
  CHOOSE returned \in
    { HandlerReturn("web", server, passes, req, optionsOrCallback, callback,
                    x.finalOptions, x.run) :
      x \in { [finalOptions |-> f, run |-> HandlerRun(passes, req, f)] :
              f \in {FinalOptions(options, RequestOptions(optionsOrCallback))} } } : TRUE

\* the function createWebSocketProxyHandler returns; passes is this.wsPasses
WebSocketProxyHandler(server, options, passes, req, optionsOrCallback, callback) ==
  CHOOSE returned \in
    { HandlerReturn("ws", server, passes, req, optionsOrCallback, callback,
                    x.finalOptions, x.run) :
      x \in { [finalOptions |-> f, run |-> HandlerRun(passes, req, f)] :
              f \in {FinalOptions(options, RequestOptions(optionsOrCallback))} } } : TRUE

-----------------------------------------------------------------------------
(* ProxyServer: the constructor, after and before *)

webIncomingPassesStreamFirst == <<P_webStream, P_deleteLength, P_timeout, P_webXHeaders>>

\* the module-level arrays, and their references in the heap
webIncomingPasses == <<P_deleteLength, P_timeout, P_webXHeaders, P_webStream>>
websocketIncomingPasses == <<P_checkMethodAndHeader, P_wsXHeaders, P_wsStream>>
WebIncomingRef == 1
WebsocketIncomingRef == 2

CopyOfAliased(heap, ref) == [heap |-> heap, ref |-> ref]

\* [...array]: a new array with the elements of the array at ref
CopyOf(heap, ref) == [heap |-> Append(heap, heap[ref]), ref |-> Len(heap) + 1]

\* options.prependPath = options.prependPath !== false
NormalizedOptions(options) ==
  Put(options, "prependPath",
      ~("prependPath" \in DOMAIN options /\ options["prependPath"] = FALSE))

\* an 'error' listener of a ProxyServer: onError, which the constructor
\* registers with this.on('error', this.onError), or a listener of the caller
DefaultListener == [fn |-> "onError", id |-> 0, once |-> FALSE]
UserListener(id, once) == [fn |-> "listener", id |-> id, once |-> once]

constructor(heap, options) ==
  LET web == CopyOf(heap, WebIncomingRef)
      ws == CopyOf(web.heap, WebsocketIncomingRef)
  IN [heap |-> ws.heap,
      server |-> [options |-> NormalizedOptions(options),
                  webPasses |-> web.ref, wsPasses |-> ws.ref,
                  errorListeners |-> <<DefaultListener>>]]

\* type === 'ws' ? this.wsPasses : this.webPasses
PassesRef(server, type) == IF type = "ws" THEN server.wsPasses ELSE server.webPasses

\* a search that keeps the first index whose pass has the name
RECURSIVE FindFirstPass(_, _, _, _)
FindFirstPass(passes, passName, idx, i) ==
  IF idx >= Len(passes) THEN i
  ELSE FindFirstPass(passes, passName, idx + 1,
                     IF i = -1 /\ passes[idx + 1].name = passName THEN idx ELSE i)

\* let i = -1; passes.forEach((v, idx) => { if (v.name === passName) i = idx; })
RECURSIVE FindPass(_, _, _, _)
FindPass(passes, passName, idx, i) ==
  IF idx >= Len(passes) THEN i
  ELSE FindPass(passes, passName, idx + 1,
                IF passes[idx + 1].name = passName THEN idx ELSE i)

\* passes.splice(start, 0, item), start counted from 0
splice(passes, start, item) ==
  SubSeq(passes, 1, start) \o <<item>> \o SubSeq(passes, start + 1, Len(passes))

\* ProxyServer.after; splice(i++, 0, callback) splices at i and then increments i
after(passes, passName, callback) ==
  LET i == FindPass(passes, passName, 0, -1)
  IN IF i = -1 THEN [threw |-> "No such pass", passes |-> passes]
     ELSE [threw |-> "", passes |-> splice(passes, i, callback)]

beforeSpliceNext(passes, passName, callback) ==
  LET i == FindPass(passes, passName, 0, -1)
  IN IF i = -1 THEN [threw |-> "No such pass", passes |-> passes]
     ELSE [threw |-> "", passes |-> splice(passes, i + 1, callback)]

beforeUnchecked(passes, passName, callback) ==
  LET i == FindPass(passes, passName, 0, -1)
  IN [threw |-> "",
      passes |-> splice(passes, IF i = -1 THEN Len(passes) - 1 ELSE i, callback)]

\* ProxyServer.before
before(passes, passName, callback) ==
  LET i == FindPass(passes, passName, 0, -1)
  IN IF i = -1 THEN [threw |-> "No such pass", passes |-> passes]
     ELSE [threw |-> "", passes |-> splice(passes, i, callback)]

-----------------------------------------------------------------------------
(* Inputs *)

Request(method, headers, encrypted) ==
  [method |-> method, headers |-> headers, remoteAddress |-> S_addr,
   encrypted |-> encrypted, isSpdy |-> FALSE, url |-> S_slash]

Headers1(k, v) == [x \in {k} |-> v]
Headers2(k1, v1, k2, v2) == Put(Headers1(k1, v1), k2, v2)

WebRequests ==
  { Request("GET", Headers1("host", S_host), FALSE),
    Request("DELETE", Headers1("transfer-encoding", S_chunked), TRUE),
    Request("OPTIONS", Headers2("host", S_hostPort, "x-forwarded-for", S_addr2), FALSE) }

WsRequests ==
  { Request("GET", Headers2("upgrade", S_websocket, "connection", S_Upgrade), FALSE),
    Request("GET", Headers2("upgrade", S_WebSocket, "host", S_hostPort), TRUE),
    Request("GET", Headers1("connection", S_keepalive), FALSE),
    Request("POST", Headers1("upgrade", S_websocket), FALSE),
    Request("GET", Headers2("upgrade", S_h2c, "connection", S_Upgrade), FALSE) }

Options1(k, v) == [x \in {k} |-> v]

\* the options a ProxyServer is constructed with
GlobalOptions ==
  { Empty,
    Options1("target", TargetStr),
    Put(Options1("forward", ForwardStr), "xfwd", TRUE),
    Put(Put(Options1("target", TargetObj), "forward", ForwardObj), "timeout", 3) }

\* the optionsOrCallback and callback arguments of web() and ws()
Arguments ==
  { <<NoArgument, "none">>,
    <<FunctionArgument("clbA"), "clbB">>,
    <<OptionsArgument(Options1("target", UndefinedV)), "none">>,
    <<OptionsArgument(Put(Options1("target", TargetStr), "xfwd", TRUE)), "clbB">> }

BuiltinPasses ==
  {webIncomingPasses[i] : i \in 1..Len(webIncomingPasses)}
    \cup {websocketIncomingPasses[i] : i \in 1..Len(websocketIncomingPasses)}

\* the names before() and after() are called with: the names of the passes
\* of the list, and one that no pass has
PassNames(passes) == {passes[i].name : i \in 1..Len(passes)} \cup {"noSuchPass"}

Kinds == {"web", "ws"}

-----------------------------------------------------------------------------
(* The facade: construction, after and before on several instances *)

webPassesOf(s) == arrays[servers[s].webPasses]
wsPassesOf(s) == arrays[servers[s].wsPasses]
PassesOf(s, type) == arrays[PassesRef(servers[s], type)]

RECURSIVE TotalLen(_, _)
TotalLen(heap, r) == IF r > Len(heap) THEN 0 ELSE Len(heap[r]) + TotalLen(heap, r + 1)

\* the number of passes inserted so far
Inserted ==
  TotalLen(arrays, 1)
    - (Len(arrays) \div 2) * (Len(webIncomingPasses) + Len(websocketIncomingPasses))

\* the client response as the transaction sees it
Response(headersSent, finished) ==
  [headersSent |-> headersSent, finished |-> finished, piped |-> FALSE,
   closed |-> FALSE, destroyed |-> FALSE]

\* what a transaction adds, after the stream pass has returned, to the state
\* its error handlers work on: the options and the requests of the call, its
\* steps so far, the client response, whether the target request has its
\* socket, whether the upstream response has arrived, what res.finished was
\* then, whether the end handler is registered and the upstream body has
\* ended, whether req has emitted aborted, what destroyed the target request
\* first and the number of the error event in which it hung up (0 if none),
\* whether the idle timeout of the client socket has fired
Lifecycle(options, out, trace, res) ==
  [options |-> options, out |-> out, trace |-> trace, res |-> res,
   socket |-> FALSE, response |-> "none", finishedAtResponse |-> FALSE,
   endHandler |-> FALSE, bodyEnded |-> FALSE, aborted |-> FALSE,
   destroyedBy |-> "", hungUp |-> 0, timedOut |-> FALSE]

NoTransaction ==
  [phase |-> "none", clb |-> "none", socketDestroyed |-> FALSE, socketTimeout |-> 0,
   listeners |-> <<>>, destroyed |-> {}, errors |-> 0] @@ Lifecycle(Empty, <<>>, <<>>, Response(FALSE, FALSE))

WebIdle ==
  /\ tx = NoTransaction
  /\ events = <<>>
  /\ clbCalls = <<>>
  /\ listenerCalls = <<>>
  /\ uncaught = <<>>
  /\ invoked = <<>>

Init ==
  /\ arrays = <<webIncomingPasses, websocketIncomingPasses>>
  /\ servers = <<>>
  /\ thrown = ""
  /\ lastCall = [type |-> "none"]
  /\ WebIdle

Construct(options) ==
  /\ Len(servers) < MaxServers
  /\ LET r == constructor(arrays, options)
     IN /\ arrays' = r.heap
        /\ servers' = Append(servers, r.server)
  /\ thrown' = ""
  /\ lastCall' = [type |-> "new", server |-> Len(servers) + 1]
  /\ UNCHANGED webVars

SpliceRecord(op, s, type, passName, callback) ==
  [type |-> op, server |-> s, kind |-> type, passName |-> passName,
   callback |-> callback, passes |-> PassesOf(s, type)]

After(s, type, passName, callback) ==
  /\ s \in DOMAIN servers
  /\ LET r == after(PassesOf(s, type), passName, callback)
     IN /\ arrays' = [arrays EXCEPT ![PassesRef(servers[s], type)] = r.passes]
        /\ thrown' = r.threw
  /\ lastCall' = SpliceRecord("after", s, type, passName, callback)
  /\ UNCHANGED <<servers, webVars>>

Before(s, type, passName, callback) ==
  /\ s \in DOMAIN servers
  /\ LET r == before(PassesOf(s, type), passName, callback)
     IN /\ arrays' = [arrays EXCEPT ![PassesRef(servers[s], type)] = r.passes]
        /\ thrown' = r.threw
  /\ lastCall' = SpliceRecord("before", s, type, passName, callback)
  /\ UNCHANGED <<servers, webVars>>

Next ==
  \/ \E o \in {Empty} : Construct(o)
  \/ /\ Inserted < MaxInserts
     /\ \E s \in DOMAIN servers, type \in Kinds, f \in UserPasses :
          \E n \in PassNames(PassesOf(s, type)) : After(s, type, n, f)
  \/ /\ Inserted < MaxInserts
     /\ \E s \in DOMAIN servers, type \in Kinds, f \in UserPasses :
          \E n \in PassNames(PassesOf(s, type)) : Before(s, type, n, f)

Spec == Init /\ [][Next]_vars

-----------------------------------------------------------------------------
(* Calls: web() and ws() on one instance, between after() and before() *)

InitCall ==
  /\ \E o \in GlobalOptions :
       LET r == constructor(<<webIncomingPasses, websocketIncomingPasses>>, o)
       IN /\ arrays = r.heap
          /\ servers = <<r.server>>
  /\ thrown = ""
  /\ lastCall = [type |-> "new", server |-> 1]
  /\ WebIdle

Web(s, req, optionsOrCallback, callback) ==
  /\ s \in DOMAIN servers
  /\ \E r \in {WebProxyHandler(s, servers[s].options, webPassesOf(s), req,
                              optionsOrCallback, callback)} :
        /\ thrown' = r.threw
        /\ lastCall' = r.call
        /\ servers' = OptionsAfter(servers, s, optionsOrCallback, r.call.ctx)
  /\ UNCHANGED <<arrays, webVars>>

Ws(s, req, optionsOrCallback, callback) ==
  /\ s \in DOMAIN servers
  /\ \E r \in {WebSocketProxyHandler(s, servers[s].options, wsPassesOf(s), req,
                                    optionsOrCallback, callback)} :
        /\ thrown' = r.threw
        /\ lastCall' = r.call
        /\ servers' = OptionsAfter(servers, s, optionsOrCallback, r.call.ctx)
  /\ UNCHANGED <<arrays, webVars>>

NextCall ==
  \/ /\ Inserted < MaxCallInserts
     /\ \E type \in Kinds, f \in UserPasses :
          \E n \in PassNames(PassesOf(1, type)) : After(1, type, n, f)
  \/ /\ Inserted < MaxCallInserts
     /\ \E type \in Kinds, f \in UserPasses :
          \E n \in PassNames(PassesOf(1, type)) : Before(1, type, n, f)
  \/ \E req \in WebRequests, a \in Arguments : Web(1, req, a[1], a[2])
  \/ \E req \in WsRequests, a \in Arguments : Ws(1, req, a[1], a[2])

SpecCall == InitCall /\ [][NextCall]_vars

-----------------------------------------------------------------------------
(* Properties of the calls *)

CallMade == lastCall.type \in {"web", "ws"}
FnsOf(passes) == [i \in 1..Len(passes) |-> passes[i].fn]
NamesOf(passes) == [i \in 1..Len(passes) |-> passes[i].name]

\* C1: in every web() or ws() call, the passes called are the passes of the list
\* in list order from the first one; a pass after which another pass was called
\* returned a falsy value, and the call stops before the end of the list only
\* after a pass that returned a truthy value (or threw).
C1_PipelineHalting ==
  CallMade =>
    LET ran == lastCall.ran
        n == Len(ran)
    IN /\ n <= Len(lastCall.passes)
       /\ \A k \in 1..n : ran[k].idx = k - 1 /\ ran[k].fn = lastCall.passes[k].fn
       /\ \A k \in 1..(n - 1) : ~ran[k].ret
       /\ thrown # "Must provide a proper URL as target" => n >= 1
       /\ (n >= 1 /\ n < Len(lastCall.passes)) => (ran[n].ret \/ lastCall.ctx.threw # "")

\* a pass in the middle of the list returned a truthy value after another pass ran
C1_Witness ==
  /\ CallMade
  /\ Len(lastCall.ran) >= 2
  /\ Len(lastCall.ran) < Len(lastCall.passes)
  /\ lastCall.ran[Len(lastCall.ran)].ret

DefaultWebFns == <<"web.deleteLength", "web.timeout", "web.XHeaders", "web.stream">>
DefaultWsFns == <<"ws.checkMethodAndHeader", "ws.XHeaders", "ws.stream">>

\* the header changes of the passes before stream, as the upstream request o shows them
EarlierChangesIn(o) ==
  LET req == lastCall.req
      final == lastCall.ctx.req.headers
  IN /\ \A k \in DOMAIN final \ {"connection"} : k \in DOMAIN o.outgoing["headers"] /\ o.outgoing["headers"][k] = final[k]
     /\ (/\ lastCall.type = "web"
         /\ req.method \in {"DELETE", "OPTIONS"}
         /\ "content-length" \notin DOMAIN req.headers)
        => (/\ o.outgoing["headers"]["content-length"] = S_0
            /\ "transfer-encoding" \notin DOMAIN o.outgoing["headers"])
     /\ ("xfwd" \in DOMAIN lastCall.options /\ lastCall.options["xfwd"])
        => /\ {"x-forwarded-for", "x-forwarded-port", "x-forwarded-proto"} \subseteq DOMAIN o.outgoing["headers"]
           /\ o.outgoing["headers"]["x-forwarded-for"] # HeaderOrEmpty(req.headers, "x-forwarded-for")

\* C2: a freshly constructed ProxyServer has the web pipeline deleteLength,
\* timeout, XHeaders, stream and the ws pipeline checkMethodAndHeader, XHeaders,
\* stream; a call on these lists runs the passes in that order, and the upstream
\* requests the stream pass creates carry the header changes of the earlier passes.
C2_DefaultPipelinesSequential ==
  /\ lastCall.type = "new" =>
       /\ FnsOf(webPassesOf(lastCall.server)) = DefaultWebFns
       /\ NamesOf(webPassesOf(lastCall.server)) = <<"deleteLength", "timeout", "XHeaders", "stream">>
       /\ FnsOf(wsPassesOf(lastCall.server)) = DefaultWsFns
       /\ NamesOf(wsPassesOf(lastCall.server)) = <<"checkMethodAndHeader", "XHeaders", "stream">>
  /\ (CallMade /\ thrown = "" /\ FnsOf(lastCall.passes) \in {DefaultWebFns, DefaultWsFns}) =>
       /\ \A k \in 1..Len(lastCall.ran) : lastCall.ran[k].fn = FnsOf(lastCall.passes)[k]
       /\ lastCall.ran[Len(lastCall.ran)].fn \in {"web.stream", "ws.stream"} =>
            /\ lastCall.ctx.out # <<>>
            /\ \A j \in 1..Len(lastCall.ctx.out) : EarlierChangesIn(lastCall.ctx.out[j])

\* a DELETE without content-length went through the default web pipeline with xfwd set
C2_Witness ==
  /\ lastCall.type = "web"
  /\ thrown = ""
  /\ FnsOf(lastCall.passes) = DefaultWebFns
  /\ lastCall.req.method = "DELETE"
  /\ "xfwd" \in DOMAIN lastCall.options
  /\ Len(lastCall.ctx.out) >= 1
  /\ lastCall.ctx.out[1].outgoing["headers"]["content-length"] = S_0

\* the per-call options of the call recorded, and whether key k of the merged
\* options holds a target
PerCall == IF lastCall.optionsOrCallback.kind = "options"
           THEN lastCall.optionsOrCallback.options ELSE Empty
MergedHas(k) ==
  IF k \in DOMAIN PerCall THEN PerCall[k].kind # "undefined"
  ELSE /\ k \in DOMAIN servers[lastCall.server].options
       /\ servers[lastCall.server].options[k].kind # "undefined"

\* C3: a web() or ws() call whose merged options hold neither target nor forward
\* throws 'Must provide a proper URL as target'; it calls no pass, creates no
\* upstream request and emits no event.
C3_MissingUrlThrows ==
  (CallMade /\ ~MergedHas("target") /\ ~MergedHas("forward")) =>
    /\ thrown = "Must provide a proper URL as target"
    /\ lastCall.ran = <<>>
    /\ lastCall.ctx.out = <<>>
    /\ lastCall.ctx.events = <<>>
    /\ lastCall.ctx = NewContext(lastCall.req)

\* a per-call target of undefined overrode the target the server was constructed with
C3_Witness ==
  /\ CallMade
  /\ thrown = "Must provide a proper URL as target"
  /\ "target" \in DOMAIN PerCall
  /\ "target" \in DOMAIN servers[lastCall.server].options

\* whether the stream pass of ws-incoming was called in the call recorded
WsStreamCalled == \E i \in DOMAIN lastCall.ran : lastCall.ran[i].fn = P_wsStream.fn

\* C39: a ws() call whose merged options hold a forward and no target throws
\* 'Must provide a proper URL as target' and calls no pass; the stream pass of
\* a ws() call is called with a target and throws no TypeError
C39_WsStreamHasTarget ==
  (CallMade /\ lastCall.type = "ws") =>
    /\ (MergedHas("forward") /\ ~MergedHas("target")) =>
         /\ thrown = "Must provide a proper URL as target"
         /\ lastCall.ran = <<>>
    /\ WsStreamCalled => MergedHas("target") /\ thrown # "TypeError"

\* the same of the ws() calls whose merged options hold a target
WsStreamWithTarget ==
  (CallMade /\ lastCall.type = "ws" /\ MergedHas("target") /\ WsStreamCalled) =>
    /\ thrown = ""
    /\ Len(lastCall.ctx.out) = 1
    /\ lastCall.ctx.out[1].role = "target"

-----------------------------------------------------------------------------
(* Properties of the facade *)

SpliceMade(op) == lastCall.type = op
Named(passes, passName) == {i \in 1..Len(passes) : passes[i].name = passName}
OneNamed(passes, passName) == Cardinality(Named(passes, passName)) = 1
TheNamed(passes, passName) == CHOOSE i \in Named(passes, passName) : TRUE

\* new is old with fn inserted at index at (counted from 1), all else in order
InsertedAt(old, new, at, fn) ==
  /\ Len(new) = Len(old) + 1
  /\ new[at] = fn
  /\ \A j \in 1..(at - 1) : new[j] = old[j]
  /\ \A j \in at..Len(old) : new[j + 1] = old[j]

\* C4: before(type, name, fn), when exactly one pass of the selected list is
\* named name, leaves fn at the index the named pass had and the named pass
\* right after it; the list is one longer and the other passes keep their order.
C4_BeforeInserts ==
  (SpliceMade("before") /\ OneNamed(lastCall.passes, lastCall.passName)) =>
    LET old == lastCall.passes
        new == PassesOf(lastCall.server, lastCall.kind)
        i == TheNamed(old, lastCall.passName)
    IN /\ thrown = ""
       /\ InsertedAt(old, new, i, lastCall.callback)
       /\ new[i + 1] = old[i]
       /\ new[i + 1].name = lastCall.passName

\* before() put a pass into a list that an earlier call had already extended
C4_Witness ==
  /\ SpliceMade("before")
  /\ OneNamed(lastCall.passes, lastCall.passName)
  /\ Len(lastCall.passes) > Len(websocketIncomingPasses)
  /\ lastCall.kind = "ws"
  /\ Len(PassesOf(lastCall.server, "ws")) = Len(lastCall.passes) + 1

\* C5: after(type, name, fn), when exactly one pass of the selected list is
\* named name, leaves the named pass at its index and fn right after it; the
\* list is one longer and the other passes keep their order.
C5_AfterInserts ==
  (SpliceMade("after") /\ OneNamed(lastCall.passes, lastCall.passName)) =>
    LET old == lastCall.passes
        new == PassesOf(lastCall.server, lastCall.kind)
        i == TheNamed(old, lastCall.passName)
    IN /\ thrown = ""
       /\ InsertedAt(old, new, i + 1, lastCall.callback)
       /\ new[i] = old[i]

\* C6: before() and after() called with a name that no pass of the selected
\* list has throw 'No such pass' and leave every pass list as it was.
C6_NoSuchPass ==
  [][(/\ lastCall'.type \in {"before", "after"}
      /\ Named(PassesOf(lastCall'.server, lastCall'.kind), lastCall'.passName) = {})
     => (thrown' = "No such pass" /\ arrays' = arrays /\ servers' = servers)]_vars

\* a call with an unknown name was made on a server whose lists had been changed
C6_Witness ==
  /\ lastCall.type \in {"before", "after"}
  /\ thrown = "No such pass"
  /\ Inserted >= 1
  /\ PassesOf(lastCall.server, lastCall.kind) = lastCall.passes

\* C7: a step changes at most one pass list, which is a list of one instance and
\* never a module-level array; the lists of the other instances and the other
\* list of the same instance stay as they were, and an instance constructed
\* later starts with the module-level defaults.
C7_ListsPerInstance ==
  [][/\ arrays'[WebIncomingRef] = arrays[WebIncomingRef]
     /\ arrays'[WebsocketIncomingRef] = arrays[WebsocketIncomingRef]
     /\ arrays'[WebIncomingRef] = webIncomingPasses
     /\ arrays'[WebsocketIncomingRef] = websocketIncomingPasses
     /\ Cardinality({s \in DOMAIN servers :
                       arrays'[servers'[s].webPasses] # arrays[servers[s].webPasses]}
                    \cup {-s : s \in {x \in DOMAIN servers :
                       arrays'[servers'[x].wsPasses] # arrays[servers[x].wsPasses]}}) <= 1
     /\ \A s \in DOMAIN servers' \ DOMAIN servers :
          /\ arrays'[servers'[s].webPasses] = webIncomingPasses
          /\ arrays'[servers'[s].wsPasses] = websocketIncomingPasses]_vars

\* an instance constructed after a pass was inserted into another one
C7_Witness ==
  /\ Len(servers) = 2
  /\ lastCall.type = "new"
  /\ webPassesOf(1) # webIncomingPasses
  /\ webPassesOf(2) = webIncomingPasses


-----------------------------------------------------------------------------
(* The web transaction: the error handlers of the web stream pass and the   *)
(* 'error' listeners of the ProxyServer                                      *)

\* the codes of the errors the client request and the upstream requests emit
ErrorCodes == {"ECONNRESET", "ECONNREFUSED"}

\* the world a handler runs in and changes: the transaction, the listeners of
\* the server, what was emitted, called and thrown so far; threw tells that
\* an exception is propagating out of the handler
World ==
  [tx |-> tx, errorListeners |-> servers[1].errorListeners, events |-> events,
   clbCalls |-> clbCalls, listenerCalls |-> listenerCalls, uncaught |-> uncaught,
   invoked |-> invoked, threw |-> FALSE]

onErrorAlwaysThrows(listeners) == Len(listeners) >= 1

\* ProxyServer.onError: whether it throws err, given listeners('error')
onError(listeners) == Len(listeners) = 1

\* super.emit('error', err, req, res, url): the listeners registered when the
\* event is emitted are called in registration order, a once listener is
\* removed before it is called, and what a listener throws leaves emit
RECURSIVE CallListeners(_, _, _, _, _)
CallListeners(w, snapshot, i, err, url) ==
  IF i > Len(snapshot) THEN w
  ELSE LET l == snapshot[i]
           removed == IF l.once
                      THEN [w EXCEPT !.errorListeners = SelectSeq(@, LAMBDA x : x # l)]
                      ELSE w
       IN IF l.fn = "onError"
          THEN IF onError(removed.errorListeners)
               THEN [removed EXCEPT !.uncaught = Append(@, err), !.threw = TRUE]
               ELSE CallListeners(removed, snapshot, i + 1, err, url)
          ELSE CallListeners([removed EXCEPT !.listenerCalls =
                                Append(@, [listener |-> l.id, err |-> err, url |-> url])],
                             snapshot, i + 1, err, url)

\* server.emit(name, err, req, res, url)
emit(w, name, err, url) ==
  LET emitted == [w EXCEPT !.events = Append(@, Emitted(name, err, url))]
  IN IF name = "error"
     THEN CallListeners(emitted, emitted.errorListeners, 1, err, url)
     ELSE emitted

\* the upstream request the closure of a handler holds
UpstreamOf(handler) == IF handler = "forwardError" THEN "forwardReq" ELSE "proxyReq"

SwallowNoDestroy(w, l, err) == emit(w, "econnreset", err, l.url)

SwallowDestroysResponse(w, l, err) ==
  [emit(w, "econnreset", err, l.url) EXCEPT !.tx.res.destroyed = TRUE]

\* server.emit('econnreset', err, req, res, url); proxyReq.destroy(); return
Swallow(w, l, err) ==
  LET emitted == emit(w, "econnreset", err, l.url)
  IN [emitted EXCEPT !.tx.destroyed = @ \cup {UpstreamOf(l.handler)}]

ReportBoth(w, l, err) ==
  IF w.tx.clb # "none"
  THEN emit([w EXCEPT !.clbCalls = Append(@, [clb |-> w.tx.clb, err |-> err, url |-> l.url])],
            "error", err, l.url)
  ELSE emit(w, "error", err, l.url)

\* if (clb) clb(err, req, res, url); else server.emit('error', err, req, res, url)
Report(w, l, err) ==
  IF w.tx.clb # "none"
  THEN [w EXCEPT !.clbCalls = Append(@, [clb |-> w.tx.clb, err |-> err, url |-> l.url])]
  ELSE emit(w, "error", err, l.url)

\* the function createErrorHandler returns, called as the listener l with an
\* error of code err; every call is noted with the event it answers and the
\* state of the client socket it saw
proxyError(w, l, err) ==
  LET called == [w EXCEPT !.invoked =
                   Append(@, [ev |-> w.tx.errors, source |-> l.on, handler |-> l.handler,
                              err |-> err, destroyed |-> w.tx.socketDestroyed])]
  IN IF called.tx.socketDestroyed /\ err = "ECONNRESET"
     THEN Swallow(called, l, err)
     ELSE Report(called, l, err)

\* emitter.emit('error', err) of the client request or an upstream request:
\* its listeners are called in registration order until one throws
RECURSIVE EmitError(_, _, _, _)
EmitError(w, source, i, err) ==
  IF i > Len(w.tx.listeners) \/ w.threw THEN w
  ELSE IF w.tx.listeners[i].on = source
       THEN EmitError(proxyError(w, w.tx.listeners[i], err), source, i + 1, err)
       ELSE EmitError(w, source, i + 1, err)

HasListener(source) == \E i \in DOMAIN tx.listeners : tx.listeners[i].on = source

\* the transaction a web() call leaves behind when its stream pass has run
Transaction(call) ==
  [phase |-> "open", clb |-> call.errorCallback,
   socketDestroyed |-> call.ctx.socketDestroyed,
   socketTimeout |-> call.ctx.socketTimeout, listeners |-> call.ctx.listeners,
   destroyed |-> {}, errors |-> 0]
    @@ Lifecycle(call.options, call.ctx.out, call.ctx.trace,
                 Response(call.ctx.resEnded, call.ctx.resEnded))

\* the options of the server of the transactions: a target, a forward, both
StreamOptions ==
  { Options1("target", TargetStr),
    Options1("forward", ForwardStr),
    Put(Options1("target", TargetObj), "forward", ForwardObj) }

\* the optionsOrCallback and callback arguments of the web() call
StreamArguments ==
  { <<NoArgument, "none">>,
    <<FunctionArgument("clbA"), "none">>,
    <<OptionsArgument(Options1("target", UndefinedV)), "clbB">> }

InitWeb ==
  /\ \E o \in StreamOptions :
       LET r == constructor(<<webIncomingPasses, websocketIncomingPasses>>, o)
       IN /\ arrays = r.heap
          /\ servers = <<r.server>>
  /\ thrown = ""
  /\ lastCall = [type |-> "new", server |-> 1]
  /\ WebIdle

\* proxy.web(req, res, optionsOrCallback, callback), the first of the behaviour
WebStart(req, optionsOrCallback, callback) ==
  /\ tx.phase = "none"
  /\ \E r \in {WebProxyHandler(1, servers[1].options, webPassesOf(1), req,
                              optionsOrCallback, callback)} :
        /\ thrown' = r.threw
        /\ lastCall' = r.call
        /\ IF r.threw = ""
           THEN /\ tx' = Transaction(r.call)
                /\ events' = events \o r.call.ctx.events
           ELSE UNCHANGED <<tx, events>>
        /\ servers' = OptionsAfter(servers, 1, optionsOrCallback, r.call.ctx)
  /\ UNCHANGED <<arrays, clbCalls, listenerCalls, uncaught, invoked>>

\* the smallest identity no listener of the server has
FreshId == CHOOSE n \in 1..(MaxListeners + 1) :
             /\ \A i \in DOMAIN servers[1].errorListeners : servers[1].errorListeners[i].id # n
             /\ \A m \in 1..(n - 1) :
                  \E i \in DOMAIN servers[1].errorListeners : servers[1].errorListeners[i].id = m

\* proxy.on('error', listener) and proxy.once('error', listener)
On(once) ==
  /\ Len(servers[1].errorListeners) < 1 + MaxListeners
  /\ servers' = [servers EXCEPT ![1].errorListeners = Append(@, UserListener(FreshId, once))]
  /\ UNCHANGED <<arrays, thrown, lastCall, webVars>>

\* the client socket is destroyed: req.socket.destroyed is true from now on
ClientSocketDestroyed ==
  /\ tx.phase = "open"
  /\ ~tx.socketDestroyed
  /\ tx' = [tx EXCEPT !.socketDestroyed = TRUE]
  /\ UNCHANGED <<facadeVars, events, clbCalls, listenerCalls, uncaught, invoked>>

\* what an 'error' event of source leaves behind
Commit(w) ==
  /\ tx' = w.tx
  /\ servers' = [servers EXCEPT ![1].errorListeners = w.errorListeners]
  /\ events' = w.events
  /\ clbCalls' = w.clbCalls
  /\ listenerCalls' = w.listenerCalls
  /\ uncaught' = w.uncaught
  /\ invoked' = w.invoked
  /\ UNCHANGED <<arrays, thrown, lastCall>>

ErrorOn(source, err) ==
  /\ tx.phase = "open"
  /\ tx.errors < MaxErrors
  /\ HasListener(source)
  /\ \E w \in {EmitError([World EXCEPT !.tx.errors = @ + 1], source, 1, err)} : Commit(w)

\* req.emit('error', err)
ReqError(err) == ErrorOn("req", err)

\* forwardReq.emit('error', err)
ForwardReqError(err) == ErrorOn("forwardReq", err)

\* proxyReq.emit('error', err)
ProxyReqError(err) == ErrorOn("proxyReq", err)

\* the client requests of the transactions
StreamRequests == {Request("GET", Headers1("host", S_host), FALSE)}

NextWeb ==
  \/ \E req \in StreamRequests, a \in StreamArguments : WebStart(req, a[1], a[2])
  \/ \E once \in BOOLEAN : On(once)
  \/ ClientSocketDestroyed
  \/ \E err \in ErrorCodes : ReqError(err)
  \/ \E err \in ErrorCodes : ForwardReqError(err)
  \/ \E err \in ErrorCodes : ProxyReqError(err)

SpecWeb == InitWeb /\ [][NextWeb]_vars

-----------------------------------------------------------------------------
(* Properties of the web transaction *)

ErrorEvents(es) == SelectSeq(es, LAMBDA e : e.name = "error")
EconnresetEvents(es) == SelectSeq(es, LAMBDA e : e.name = "econnreset")

\* the invocations of the error handlers that took the econnreset branch
Swallowed(inv) == inv.destroyed /\ inv.err = "ECONNRESET"

\* the descriptor of the upstream whose request emitter stands for
DescriptorOf(inv) ==
  IF inv.handler = "forwardError" THEN lastCall.options["forward"].url
  ELSE lastCall.options["target"].url

\* C8: in a step that emits one 'error' event, the error is rethrown to the
\* emitting code and reaches no other listener when onError is the only 'error'
\* listener of the server, and it is not thrown and reaches every other
\* listener, in registration order, when there is at least one other
C8_DefaultListenerRethrows ==
  [][Len(ErrorEvents(events')) = Len(ErrorEvents(events)) + 1 =>
       LET all == ErrorEvents(events')
           e == all[Len(all)]
           listeners == servers[1].errorListeners
           others == SubSeq(listeners, 2, Len(listeners))
       IN /\ listeners[1] = DefaultListener
          /\ Len(listeners) = 1 =>
               /\ uncaught' = Append(uncaught, e.err)
               /\ listenerCalls' = listenerCalls
          /\ Len(listeners) > 1 =>
               /\ uncaught' = uncaught
               /\ listenerCalls' = listenerCalls \o
                    [i \in 1..Len(others) |->
                       [listener |-> others[i].id, err |-> e.err, url |-> e.url]]]_vars

\* an error was rethrown while onError was alone, and another was delivered
\* to a listener registered with on or once
C8_Witness ==
  /\ uncaught # <<>>
  /\ listenerCalls # <<>>
  /\ Len(ErrorEvents(events)) >= 2

\* C9: the handler invocations that are not swallowed as econnreset are
\* reported one for one, in order: through the per-call error callback with the
\* error and the descriptor when the call supplied one, and then no 'error'
\* event is emitted; through 'error' events with the error and the descriptor
\* otherwise, and then no callback is called.  The descriptor is forward for
\* the forward request's handler and target for the target request's.
C9_OneChannel ==
  tx.phase = "open" =>
    LET reported == SelectSeq(invoked, LAMBDA inv : ~Swallowed(inv))
        emitted == ErrorEvents(events)
    IN /\ \A i \in DOMAIN invoked :
            /\ invoked[i].source = "forwardReq" => invoked[i].handler = "forwardError"
            /\ invoked[i].source = "proxyReq" => invoked[i].handler = "proxyError"
       /\ IF lastCall.errorCallback # "none"
          THEN /\ clbCalls = [i \in 1..Len(reported) |->
                                [clb |-> lastCall.errorCallback, err |-> reported[i].err,
                                 url |-> DescriptorOf(reported[i])]]
               /\ emitted = <<>>
          ELSE /\ emitted = [i \in 1..Len(reported) |->
                               Emitted("error", reported[i].err, DescriptorOf(reported[i]))]
               /\ clbCalls = <<>>

\* a call with an error callback whose forward handler and target handler both
\* reported an error to it
C9_Witness ==
  /\ Len(clbCalls) >= 2
  /\ \E i, j \in DOMAIN clbCalls : clbCalls[i].url = ForwardUrl /\ clbCalls[j].url = TargetUrl
  /\ \E i \in DOMAIN invoked : invoked[i].source = "forwardReq"

\* the reports made so far: calls of the error callback, 'error' events and
\* econnreset events
Reports == Len(clbCalls) + Len(ErrorEvents(events)) + Len(EconnresetEvents(events))

\* C36: in a web transaction the reports are at most as many as the 'error'
\* events of the client request and the upstream requests: one event is
\* reported at most once, whichever upstreams are configured
C36_ReportedOnce == tx.phase = "open" => Reports <= tx.errors

\* the same of the transactions that do not have both a forward and a target
ReportedOnceOneUpstream ==
  (tx.phase = "open" /\ ~(OptTruthy(tx.options, "forward") /\ OptTruthy(tx.options, "target")))
    => Reports <= tx.errors

\* C10: the handler invocations with ECONNRESET on a destroyed client socket
\* are answered one for one, in order, by econnreset events with the error and
\* the descriptor; the upstream request of each is destroyed; and the 'error'
\* events and callback calls are as many as the other invocations
C10_EconnresetSwallowed ==
  tx.phase = "open" =>
    LET swallowed == SelectSeq(invoked, Swallowed)
    IN /\ EconnresetEvents(events) =
            [i \in 1..Len(swallowed) |->
               Emitted("econnreset", swallowed[i].err, DescriptorOf(swallowed[i]))]
       /\ \A i \in DOMAIN swallowed : UpstreamOf(swallowed[i].handler) \in tx.destroyed
       /\ Len(ErrorEvents(events)) + Len(clbCalls) = Len(invoked) - Len(swallowed)

\* an ECONNRESET after the client socket was destroyed, in a transaction that
\* also reported another error
C10_Witness ==
  /\ \E i \in DOMAIN invoked : Swallowed(invoked[i])
  /\ \E i \in DOMAIN invoked : ~Swallowed(invoked[i])
  /\ EconnresetEvents(events) # <<>>

-----------------------------------------------------------------------------
(* Properties of the ws pipeline *)

\* the word websocket, each letter in either case
IsWebsocketAnyCase(s) ==
  /\ Len(s) = Len(S_websocket)
  /\ \A i \in 1..Len(s) :
       \E j \in 1..Len(LowerCase) :
         LowerCase[j] = S_websocket[i] /\ s[i] \in {LowerCase[j], UpperCase[j]}

\* the position in lastCall.ran of the call of checkMethodAndHeader, 0 if none
GatekeeperCall ==
  IF \E k \in DOMAIN lastCall.ran : lastCall.ran[k].fn = "ws.checkMethodAndHeader"
  THEN CHOOSE k \in DOMAIN lastCall.ran : lastCall.ran[k].fn = "ws.checkMethodAndHeader"
  ELSE 0

\* C13: a ws() call that reaches checkMethodAndHeader with a method other than
\* GET, without an Upgrade header, or with an Upgrade header that is not
\* websocket in some letter case has its client socket destroyed, the pass
\* returns true and is the last pass called, and the call creates no upstream
\* request and emits no event; with GET and websocket in any letter case the
\* pass returns a falsy value and the socket is not destroyed.
C13_Gatekeeper ==
  (CallMade /\ lastCall.type = "ws" /\ GatekeeperCall # 0) =>
    LET req == lastCall.req
        k == GatekeeperCall
        accepted == /\ req.method = "GET"
                    /\ "upgrade" \in DOMAIN req.headers
                    /\ IsWebsocketAnyCase(req.headers["upgrade"])
    IN IF accepted
       THEN /\ ~lastCall.ran[k].ret
            /\ ~lastCall.ctx.socketDestroyed
       ELSE /\ lastCall.ran[k].ret
            /\ k = Len(lastCall.ran)
            /\ lastCall.ctx.socketDestroyed
            /\ lastCall.ctx.out = <<>>
            /\ lastCall.ctx.events = <<>>

\* a GET with Upgrade: WebSocket went past the gatekeeper and reached stream
C13_Witness ==
  /\ CallMade /\ lastCall.type = "ws" /\ GatekeeperCall # 0
  /\ lastCall.req.headers = Headers2("upgrade", S_WebSocket, "host", S_hostPort)
  /\ ~lastCall.ran[GatekeeperCall].ret
  /\ lastCall.ctx.out # <<>>

-----------------------------------------------------------------------------
(* rewriteCookieProperty of lib/common.ts and writeHeaders of web-outgoing *)

S_setcookie == <<"s", "e", "t", "-", "c", "o", "o", "k", "i", "e">>

\* a header of an IncomingMessage: a string, or an array of strings
StringValue(v) == [isArray |-> FALSE, v |-> v]
ArrayValue(vs) == [isArray |-> TRUE, v |-> vs]
Header(key, value) == [key |-> key, value |-> value]

S_domain == <<"d", "o", "m", "a", "i", "n">>
S_DomainCaps == <<"D", "o", "m", "a", "i", "n">>
S_path == <<"p", "a", "t", "h">>
S_star == <<"*">>
S_equals == <<"=">>
S_semicolon == <<";">>
S_x == <<"x">>
S_y == <<"y">>
S_z == <<"z">>
S_w == <<"w">>

\* the end of the run of characters other than ';' that starts at i
RECURSIVE ValueEnd(_, _)
ValueEnd(s, i) == IF i <= Len(s) /\ s[i] # ";" THEN ValueEnd(s, i + 1) ELSE i - 1

\* whether /(;\s*property=)([^;]+)/i matches s at i
ClauseAt(s, i, property) ==
  /\ s[i] = ";"
  /\ LET name == SkipSpace(s, i + 1)
         value == name + Len(property) + 1
     IN /\ StartsWithLower(s, name, toLowerCase(property) \o S_equals)
        /\ value <= Len(s)
        /\ s[value] # ";"

ReplacementKeepsPrefix(prefix, previousValue, config) ==
  IF previousValue \in DOMAIN config THEN prefix \o config[previousValue]
  ELSE IF S_star \in DOMAIN config THEN prefix \o config[S_star]
  ELSE prefix \o previousValue

\* the replacer: config[previousValue], else config['*'], else the match;
\* prefix + newValue when newValue is truthy, '' otherwise
Replacement(prefix, previousValue, config) ==
  IF previousValue \in DOMAIN config
  THEN (IF config[previousValue] # S_empty THEN prefix \o config[previousValue] ELSE S_empty)
  ELSE IF S_star \in DOMAIN config
  THEN (IF config[S_star] # S_empty THEN prefix \o config[S_star] ELSE S_empty)
  ELSE prefix \o previousValue

\* header.replace(regexp, replacer) for a string: the first match only
rewriteCookieString(header, config, property) ==
  LET matches == {i \in DOMAIN header : ClauseAt(header, i, property)}
  IN IF matches = {} THEN header
     ELSE LET i == CHOOSE m \in matches : \A n \in matches : m <= n
              value == SkipSpace(header, i + 1) + Len(property) + 1
              end == ValueEnd(header, value)
          IN SubSeq(header, 1, i - 1)
               \o Replacement(SubSeq(header, i, value - 1), SubSeq(header, value, end), config)
               \o SubSeq(header, end + 1, Len(header))

\* rewriteCookieProperty(header, config, property): header.map for an array
rewriteCookieProperty(header, config, property) ==
  IF header.isArray
  THEN ArrayValue([i \in DOMAIN header.v |-> rewriteCookieString(header.v[i], config, property)])
  ELSE StringValue(rewriteCookieString(header.v, config, property))

\* typeof option === 'string' ? { '*': option } : option; an option that is
\* not set, or false, is no configuration
CookieConfig(options, k) ==
  IF k \notin DOMAIN options THEN [set |-> FALSE, config |-> Empty]
  ELSE IF options[k].kind = "string"
  THEN [set |-> TRUE, config |-> [x \in {S_star} |-> options[k].str]]
  ELSE IF options[k].kind = "object" THEN [set |-> TRUE, config |-> options[k].map]
  ELSE [set |-> FALSE, config |-> Empty]

\* s.trim(), for spaces and tabs
RECURSIVE trim(_)
trim(s) ==
  IF s = <<>> THEN s
  ELSE IF IsSpace(Head(s)) THEN trim(Tail(s))
  ELSE IF IsSpace(s[Len(s)]) THEN trim(SubSeq(s, 1, Len(s) - 1))
  ELSE s

\* setHeader of writeHeaders: the value res.setHeader is given for the key
setHeader(key, header, options) ==
  LET domain == CookieConfig(options, "cookieDomainRewrite")
      path == CookieConfig(options, "cookiePathRewrite")
      h1 == IF domain.set /\ toLowerCase(key) = S_setcookie
            THEN rewriteCookieProperty(header, domain.config, S_domain)
            ELSE header
  IN IF path.set /\ toLowerCase(key) = S_setcookie
     THEN rewriteCookieProperty(h1, path.config, S_path)
     ELSE h1

\* key = rawHeaderKeyMap[key] || key under preserveHeaderKeyCase: the last
\* key of rawHeaders that is the key in lower case
RawKey(key, rawHeaders, options) ==
  LET raw == {i \in DOMAIN rawHeaders : toLowerCase(rawHeaders[i]) = key}
  IN IF FlagTruthy(options, "preserveHeaderKeyCase") /\ raw # {}
     THEN rawHeaders[CHOOSE i \in raw : \A j \in raw : j <= i]
     ELSE key

\* writeHeaders: the headers of res afterwards, as the pairs of a key and a
\* value given to res.setHeader; headers are those of proxyRes, keyed in lower
\* case, and rawHeaders the keys as the upstream sent them
writeHeaders(headers, rawHeaders, options) ==
  { Header(trim(RawKey(key, rawHeaders, options)),
           setHeader(RawKey(key, rawHeaders, options), headers[key], options)) :
      key \in DOMAIN headers }

\* redirectRegex.test(String(statusCode)) for /^201|30(1|2|7|8)$/: 201 at the
\* start, or 301, 302, 307 or 308 at the end
redirectRegex(statusCode) ==
  LET s == NumberToString(statusCode)
  IN \/ MatchAt(s, 1, <<"2", "0", "1">>)
     \/ \E d \in {"1", "2", "7", "8"} : MatchAt(s, Len(s) - 2, <<"3", "0", d>>)

hostsDifferNever(target, u) == FALSE

\* target.host != u.host; null and undefined are equal
hostsDiffer(target, u) ==
  IF "host" \in DOMAIN target /\ "host" \in DOMAIN u THEN target["host"] # u["host"]
  ELSE "host" \in DOMAIN target \/ "host" \in DOMAIN u

\* url.format(u): the protocol with a colon, //, the host, or else the name
\* and the port, and the path
format(u) ==
  LET protocol == IF ~Truthy(u, "protocol") THEN S_empty
                  ELSE IF u["protocol"][Len(u["protocol"])] = ":" THEN u["protocol"]
                  ELSE u["protocol"] \o S_colonChar
      host == IF Truthy(u, "host") THEN u["host"]
              ELSE IF Truthy(u, "hostname")
              THEN u["hostname"] \o (IF Truthy(u, "port") THEN S_colonChar \o u["port"]
                                     ELSE S_empty)
              ELSE S_empty
  IN protocol \o (IF host # S_empty THEN <<"/", "/">> \o host ELSE S_empty)
       \o (IF Truthy(u, "path") THEN u["path"] ELSE S_empty)

\* setRedirectHostRewrite: the headers of proxyRes afterwards, and what it
\* threw; url.parse throws a TypeError when the target is an object that is
\* not a Url
setRedirectHostRewrite(req, proxyRes, options) ==
  LET same == [headers |-> proxyRes.headers, threw |-> ""]
  IN IF ~(/\ \/ Truthy(options, "hostRewrite")
             \/ FlagTruthy(options, "autoRewrite")
             \/ Truthy(options, "protocolRewrite")
          /\ OptTruthy(options, "target")
          /\ HeaderTruthy(proxyRes.headers, "location")
          /\ proxyRes.statusCode # 0
          /\ redirectRegex(proxyRes.statusCode))
     THEN same
     ELSE IF options["target"].kind = "object" THEN [same EXCEPT !.threw = "TypeError"]
     ELSE LET target == IF options["target"].kind = "url" THEN options["target"].url
                        ELSE parse_url(options["target"]).url
              u == parse_url([str |-> proxyRes.headers["location"]]).url
              u1 == IF Truthy(options, "hostRewrite")
                    THEN Put(u, "host", options["hostRewrite"])
                    ELSE IF FlagTruthy(options, "autoRewrite")
                    THEN (IF HeaderTruthy(req.headers, "host")
                          THEN Put(u, "host", req.headers["host"])
                          ELSE Delete(u, "host"))
                    ELSE u
              u2 == IF Truthy(options, "protocolRewrite")
                    THEN Put(u1, "protocol", options["protocolRewrite"])
                    ELSE u1
          IN IF hostsDiffer(target, u) THEN same
             ELSE [same EXCEPT !.headers = Put(@, "location", format(u2))]

-----------------------------------------------------------------------------
(* The life of a web transaction after the stream pass has returned: the    *)
(* socket, response and end of the target request, the client's abort, the  *)
(* upstream timeout                                                          *)

NoUrl == [protocol |-> "", host |-> "", hostname |-> "", port |-> "", path |-> ""]

\* server.emit(name, ...) of an event that carries no error, as a step
emitStep(w, name) ==
  LET emitted == emit(w, name, "", NoUrl)
  IN [emitted EXCEPT !.tx.trace = Append(@, Step("emit", name, ""))]

\* what a listener of proxyReq or proxyRes does to the client response while
\* the event is emitted: nothing, res.writeHead(...), or res.end(...)
ListenerActs == {"none", "writeHead", "end"}

Acted(res, act) ==
  CASE act = "writeHead" -> [res EXCEPT !.headersSent = TRUE]
    [] act = "end" -> [res EXCEPT !.headersSent = TRUE, !.finished = TRUE]
    [] OTHER -> res

\* the request the stream pass made to the target
TargetRequest(t) == t.out[CHOOSE i \in DOMAIN t.out : t.out[i].role = "target"]

\* whether proxyReq.write or proxyReq.end has been called: the first of them
\* renders the header block of the request, whether or not it has a socket
Rendered(t) ==
  \E i \in DOMAIN t.trace : t.trace[i].op \in {"write", "end"} /\ t.trace[i].b = "proxyReq"

\* a listener of proxyReq calls proxyReq.setHeader: the call throws
\* ERR_HTTP_HEADERS_SENT once the header block is rendered, and what a listener
\* throws leaves emit and the handler of socket
proxyReqSetHeader(w) ==
  IF Rendered(w.tx)
  THEN [w EXCEPT !.tx.trace = Append(@, Step("setHeader", "proxyReq", "ERR_HTTP_HEADERS_SENT")),
                 !.uncaught = Append(@, "ERR_HTTP_HEADERS_SENT"), !.threw = TRUE]
  ELSE [w EXCEPT !.tx.trace = Append(@, Step("setHeader", "proxyReq", ""))]

\* proxyReq.on('socket'): server.emit('proxyReq', ...) unless the request has
\* an Expect header, with what the listeners of proxyReq do
onSocket(w, act) ==
  LET assigned == [w EXCEPT !.tx.socket = TRUE]
  IN IF ~HeaderTruthy(TargetRequest(w.tx).outgoing["headers"], "expect")
     THEN IF act = "setHeader" THEN proxyReqSetHeader(emitStep(assigned, "proxyReq"))
          ELSE [emitStep(assigned, "proxyReq") EXCEPT !.tx.res = Acted(@, act)]
     ELSE assigned

\* the web-outgoing passes; each runs to its end and returns undefined
webOutgoingPasses ==
  <<"removeChunked", "setConnection", "setRedirectHostRewrite", "writeHeaders",
    "writeStatusCode">>

\* the truthiness of what a web-outgoing pass returns
OutgoingReturn(pass) == FALSE

\* whether a web-outgoing pass throws: setRedirectHostRewrite does where its
\* url.parse does; the passes before it leave the status and the Location of
\* proxyRes as they are
OutgoingThrows(pass, req, proxyRes, options) ==
  /\ pass = "setRedirectHostRewrite"
  /\ setRedirectHostRewrite(req, proxyRes, options).threw # ""

\* for (i = 0; i < webOutgoingPasses.length; i++) if (pass.call(...)) break;
\* the headers and the status the passes write are not part of this state;
\* what a pass throws leaves the loop and the handler of response
RECURSIVE RunOutgoingPasses(_, _, _, _, _)
RunOutgoingPasses(passes, i, w, req, proxyRes) ==
  IF ~(i < Len(passes)) THEN w
  ELSE LET called == [w EXCEPT !.tx.trace = Append(@, Step("pass", passes[i + 1], ""))]
       IN IF OutgoingThrows(passes[i + 1], req, proxyRes, w.tx.options)
          THEN [called EXCEPT !.uncaught = Append(@, "TypeError"), !.threw = TRUE]
          ELSE IF OutgoingReturn(passes[i + 1]) THEN called
          ELSE RunOutgoingPasses(passes, i + 1, called, req, proxyRes)

SelfHandledNever(options) == FALSE

\* options.selfHandleResponse
SelfHandled(options) == FlagTruthy(options, "selfHandleResponse")

FinishBoth(w) ==
  LET registered == [w EXCEPT !.tx.endHandler = TRUE,
                              !.tx.finishedAtResponse = w.tx.res.finished]
  IN emitStep(registered, "end")

\* if (!res.finished) { proxyRes.on('end', ...); if (!options.selfHandleResponse)
\* proxyRes.pipe(res); } else server.emit('end', req, res, proxyRes)
Finish(w) ==
  IF ~w.tx.res.finished
  THEN LET registered == [w EXCEPT !.tx.endHandler = TRUE, !.tx.finishedAtResponse = FALSE]
       IN IF ~SelfHandled(w.tx.options)
          THEN [registered EXCEPT !.tx.res.piped = TRUE,
                                  !.tx.trace = Append(@, Step("pipe", "proxyRes", "res"))]
          ELSE registered
  ELSE emitStep([w EXCEPT !.tx.finishedAtResponse = TRUE], "end")

\* proxyReq.on('response'), with what the listeners of proxyRes do
onResponse(w, act, req, proxyRes) ==
  LET emitted == emitStep([w EXCEPT !.tx.response = "arrived"], "proxyRes")
      listened == [emitted EXCEPT !.tx.res = Acted(@, act)]
  IN CHOOSE done \in
       { IF passed.threw THEN passed ELSE Finish(passed) :
         passed \in
           { IF ~listened.tx.res.headersSent /\ ~SelfHandled(listened.tx.options)
             THEN RunOutgoingPasses(webOutgoingPasses, 0, listened, req, proxyRes)
             ELSE listened } } : TRUE

\* proxyRes emits end: the handler registered by the response handler emits
\* end, and the pipe, if there is one, ends the client response
onProxyResEnd(w) ==
  LET ended == [w EXCEPT !.tx.bodyEnded = TRUE]
      emitted == IF ended.tx.endHandler THEN emitStep(ended, "end") ELSE ended
  IN IF emitted.tx.res.piped /\ ~emitted.tx.res.finished
     THEN [emitted EXCEPT !.tx.res.headersSent = TRUE, !.tx.res.finished = TRUE,
                          !.tx.trace = Append(@, Step("end", "res", ""))]
     ELSE emitted

\* proxyReq.destroy(), noting what called it first
Destroy(t, by) ==
  [t EXCEPT !.destroyed = @ \cup {"proxyReq"},
            !.destroyedBy = IF "proxyReq" \in t.destroyed THEN @ ELSE by]

onAbortedIgnored(t) == [t EXCEPT !.aborted = TRUE]

\* req.on('aborted', function () { proxyReq.destroy(); })
onAborted(t) == Destroy([t EXCEPT !.aborted = TRUE], "aborted")

\* res.on('close', function () { if (res.destroyed) proxyReq.destroy(); })
onClose(t, destroyed) ==
  LET closed == [t EXCEPT !.res.closed = TRUE, !.res.destroyed = destroyed]
  IN IF closed.res.destroyed THEN Destroy(closed, "close") ELSE closed

onProxyTimeoutEndsRes(t) == [Destroy(t, "proxyTimeout") EXCEPT !.res.finished = TRUE]

\* proxyReq.setTimeout(options.proxyTimeout, function () { proxyReq.destroy(); })
onProxyTimeout(t) == Destroy(t, "proxyTimeout")

\* the steps that change the transaction alone
Proceed(t) ==
  /\ tx' = t
  /\ UNCHANGED <<facadeVars, events, clbCalls, listenerCalls, uncaught, invoked>>

\* the target request is given its socket
ProxyReqSocket(act) ==
  /\ tx.phase = "open"
  /\ HasListener("proxyReq")
  /\ ~tx.socket
  /\ "proxyReq" \notin tx.destroyed
  /\ \E w \in {onSocket(World, act)} : Commit(w)

\* the response of the target arrives
ProxyReqResponse(act, proxyRes) ==
  /\ tx.phase = "open"
  /\ tx.socket
  /\ tx.response = "none"
  /\ "proxyReq" \notin tx.destroyed
  /\ \E w \in {onResponse(World, act, lastCall.req, proxyRes)} : Commit(w)

\* the body of the response of the target ends
ProxyResEnd ==
  /\ tx.phase = "open"
  /\ tx.response = "arrived"
  /\ ~tx.bodyEnded
  /\ "proxyReq" \notin tx.destroyed
  /\ \E w \in {onProxyResEnd(World)} : Commit(w)

\* req emits aborted; it does when its socket has closed
ReqAborted ==
  /\ tx.phase = "open"
  /\ HasListener("proxyReq")
  /\ tx.socketDestroyed
  /\ ~tx.aborted
  /\ Proceed(onAborted(tx))

\* res emits close, after its socket has closed or after it has finished;
\* destroyed is res.destroyed at that moment
ResClose(destroyed) ==
  /\ tx.phase = "open"
  /\ HasListener("proxyReq")
  /\ ~tx.res.closed
  /\ tx.socketDestroyed \/ tx.res.finished
  /\ Proceed(onClose(tx, destroyed))

\* the idle timeout of the socket of the target request fires
ProxyTimeoutFires ==
  /\ tx.phase = "open"
  /\ HasListener("proxyReq")
  /\ NumTruthy(tx.options, "proxyTimeout")
  /\ tx.socket
  /\ "proxyReq" \notin tx.destroyed
  /\ Proceed(onProxyTimeout(tx))

\* the idle timeout that req.socket.setTimeout armed fires before the target
\* has answered: with no listener of timeout on the request, the response or
\* the http server, the server destroys the client socket, which resets the
\* connection of the client
onSocketTimeout(t) == [t EXCEPT !.timedOut = TRUE, !.socketDestroyed = TRUE]

ClientSocketTimeout ==
  /\ tx.phase = "open"
  /\ tx.socketTimeout # 0
  /\ tx.response = "none"
  /\ ~tx.socketDestroyed
  /\ Proceed(onSocketTimeout(tx))

\* the target request, destroyed before its response arrived, emits the error
\* of a socket hang up, whose code is ECONNRESET
ProxyReqHangUp ==
  /\ tx.phase = "open"
  /\ "proxyReq" \in tx.destroyed
  /\ tx.response = "none"
  /\ tx.hungUp = 0
  /\ tx.errors < MaxErrors
  /\ \E w \in {EmitError([World EXCEPT !.tx.errors = @ + 1, !.tx.hungUp = tx.errors + 1],
                         "proxyReq", 1, "ECONNRESET")} : Commit(w)

\* the options of the server of the transactions
LifeOptions ==
  { Options1("target", TargetStr),
    Put(Put(Options1("target", TargetObj), "forward", ForwardObj), "timeout", 3),
    Options1("forward", ForwardStr),
    Put(Options1("target", TargetStr), "selfHandleResponse", TRUE),
    Put(Put(Options1("target", TargetStr), "proxyTimeout", 5), "buffer", TRUE) }

\* the responses of the target: 200 without a Location
LifeResponses == {[statusCode |-> 200, headers |-> Empty]}

\* the optionsOrCallback and callback arguments of the web() call
LifeArguments ==
  { <<NoArgument, "none">>,
    <<FunctionArgument("clbA"), "none">> }

S_100continue == <<"1", "0", "0", "-", "c", "o", "n", "t", "i", "n", "u", "e">>

\* the client requests of the transactions
LifeRequests ==
  { Request("GET", Headers1("host", S_host), FALSE),
    Request("POST", Headers1("expect", S_100continue), FALSE) }

InitLife ==
  /\ \E o \in LifeOptions :
       LET r == constructor(<<webIncomingPasses, websocketIncomingPasses>>, o)
       IN /\ arrays = r.heap
          /\ servers = <<r.server>>
  /\ thrown = ""
  /\ lastCall = [type |-> "new", server |-> 1]
  /\ WebIdle

NextLife ==
  \/ \E req \in LifeRequests, a \in LifeArguments : WebStart(req, a[1], a[2])
  \/ \E act \in {"none", "end"} : ProxyReqSocket(act)
  \/ \E act \in ListenerActs, proxyRes \in LifeResponses : ProxyReqResponse(act, proxyRes)
  \/ ProxyResEnd
  \/ ClientSocketDestroyed
  \/ ClientSocketTimeout
  \/ ReqAborted
  \/ \E destroyed \in BOOLEAN : ResClose(destroyed)
  \/ ProxyTimeoutFires
  \/ ProxyReqHangUp
  \/ \E err \in ErrorCodes : ReqError(err)

SpecLife == InitLife /\ [][NextLife]_vars

-----------------------------------------------------------------------------
(* Properties of the life of a web transaction *)

\* the positions of the trace at which the event name was emitted
EmitAt(name) == {i \in DOMAIN tx.trace : tx.trace[i] = Step("emit", name, "")}

\* the number of times the event name was emitted
Count(name) == Len(SelectSeq(events, LAMBDA e : e.name = name))

HasTarget == tx.phase = "open" /\ OptTruthy(tx.options, "target")
ForwardOnly == tx.phase = "open" /\ ~OptTruthy(tx.options, "target")

\* C11: in a web transaction with a target, start is emitted before any
\* upstream request is created and before proxyReq; proxyRes is emitted before
\* any web-outgoing pass is called and before the upstream response is piped
\* to the client response; end is never emitted before proxyRes.
C11_EventOrder ==
  HasTarget =>
    /\ EmitAt("start") # {}
    /\ \A j \in DOMAIN tx.trace :
         /\ (tx.trace[j].op = "request" \/ j \in EmitAt("proxyReq")) =>
              \E i \in EmitAt("start") : i < j
         /\ (\/ tx.trace[j].op = "pass"
             \/ tx.trace[j] = Step("pipe", "proxyRes", "res")
             \/ j \in EmitAt("end")) =>
              \E i \in EmitAt("proxyRes") : i < j

\* a transaction that emitted proxyReq, ran the web-outgoing passes, piped the
\* response and emitted end
C11_Witness ==
  /\ HasTarget
  /\ EmitAt("proxyReq") # {}
  /\ \E j \in DOMAIN tx.trace : tx.trace[j].op = "pass"
  /\ \E j \in DOMAIN tx.trace : tx.trace[j] = Step("pipe", "proxyRes", "res")
  /\ EmitAt("end") # {}

\* C12: end is not emitted before the upstream response arrives; when the
\* client response was finished at response time it has been emitted once from
\* then on; when it was not, it has not been emitted until the upstream body
\* ends and has been emitted once from then on.
C12_EndExactlyOnce ==
  tx.phase = "open" =>
    /\ tx.response = "none" => Count("end") = 0
    /\ tx.response = "arrived" =>
         /\ tx.finishedAtResponse => (tx.res.finished /\ Count("end") = 1)
         /\ ~tx.finishedAtResponse => Count("end") = (IF tx.bodyEnded THEN 1 ELSE 0)

\* the response arrived on an unfinished client response, its body ended and
\* end was emitted
C12_Witness ==
  /\ tx.phase = "open"
  /\ tx.response = "arrived"
  /\ ~tx.finishedAtResponse
  /\ tx.bodyEnded
  /\ Count("end") = 1

\* C12 as stated: once the upstream response has arrived and its body has ended
\* or the target request has been destroyed, end has been emitted exactly once
\* (it is never omitted).
C12_EndNeverOmitted ==
  (/\ tx.phase = "open"
   /\ tx.response = "arrived"
   /\ (tx.bodyEnded \/ "proxyReq" \in tx.destroyed)) =>
    Count("end") = 1

\* C17: with forward and without target the stream pass makes one upstream
\* request, to forward, pipes the body source into it and ends the client
\* response in the same step; the transaction never emits proxyReq, proxyRes
\* or end.
C17_ForwardOnly ==
  ForwardOnly =>
    /\ Len(tx.out) = 1
    /\ tx.out[1].role = "forward"
    /\ tx.out[1].url = tx.options["forward"].url
    /\ tx.trace = <<Step("emit", "start", ""), Step("request", "forwardReq", ""),
                    Step("pipe", BodySource(tx.options), "forwardReq"),
                    Step("end", "res", "")>>
    /\ tx.res.finished
    /\ Count("proxyReq") = 0 /\ Count("proxyRes") = 0 /\ Count("end") = 0

\* a forward-only transaction in which the client request has emitted an error
C17_Witness ==
  /\ ForwardOnly
  /\ invoked # <<>>

\* C18: with selfHandleResponse no web-outgoing pass is called and the
\* upstream response is not piped to the client response; proxyRes has been
\* emitted once the response has arrived, and end has been emitted once the
\* upstream body has ended.
C18_SelfHandleResponse ==
  (tx.phase = "open" /\ "selfHandleResponse" \in DOMAIN tx.options
     /\ tx.options["selfHandleResponse"]) =>
    /\ \A j \in DOMAIN tx.trace :
         tx.trace[j].op # "pass" /\ tx.trace[j] # Step("pipe", "proxyRes", "res")
    /\ ~tx.res.piped
    /\ tx.response = "arrived" => Count("proxyRes") = 1
    /\ tx.bodyEnded => Count("end") = 1

\* a selfHandleResponse transaction whose listeners left the client response
\* alone and whose upstream body has ended
C18_Witness ==
  /\ tx.phase = "open" /\ "selfHandleResponse" \in DOMAIN tx.options
  /\ tx.bodyEnded
  /\ ~tx.res.headersSent
  /\ Count("end") = 1

C21_ClientTimeout ==
  [][/\ (tx'.phase = "open" /\ NumTruthy(tx'.options, "timeout")) =>
          tx'.socketTimeout = tx'.options["timeout"]
     /\ tx'.timedOut => tx'.socketDestroyed
     /\ (tx'.hungUp # 0 /\ tx.hungUp = 0 /\ tx.timedOut) =>
          /\ ErrorEvents(events') = ErrorEvents(events)
          /\ clbCalls' = clbCalls
          /\ EconnresetEvents(events') =
               Append(EconnresetEvents(events),
                      Emitted("econnreset", "ECONNRESET", tx.options["target"].url))]_vars

\* C21 as stated: once the timeout has fired and the target request has hung
\* up, an 'error' event with code ECONNRESET has been emitted.
C21_ErrorEmitted ==
  (tx.phase = "open" /\ tx.timedOut /\ tx.hungUp # 0) =>
    \E i \in DOMAIN events : events[i].name = "error" /\ events[i].err = "ECONNRESET"

\* the timeout fired, the target request was destroyed and hung up
C21_Witness ==
  /\ tx.phase = "open"
  /\ tx.timedOut
  /\ tx.hungUp # 0
  /\ EconnresetEvents(events) # <<>>

\* C20: the step in which the proxyTimeout fires destroys the target request,
\* leaves the client response and the client socket as they are and emits
\* nothing; when that request hangs up while the client socket is not
\* destroyed, the ECONNRESET goes to the error callback of the call, or to an
\* 'error' event when there is none, with the target descriptor, and the
\* client response and socket are again left as they are.
C20_ProxyTimeout ==
  [][/\ (tx'.destroyedBy = "proxyTimeout" /\ tx.destroyedBy # "proxyTimeout") =>
          /\ "proxyReq" \in tx'.destroyed
          /\ tx'.res = tx.res
          /\ tx'.socketDestroyed = tx.socketDestroyed
          /\ events' = events
     /\ (tx'.hungUp # 0 /\ tx.hungUp = 0 /\ tx.destroyedBy = "proxyTimeout"
           /\ ~tx.socketDestroyed) =>
          /\ tx'.res = tx.res
          /\ tx'.socketDestroyed = tx.socketDestroyed
          /\ IF tx.clb # "none"
             THEN /\ clbCalls' = Append(clbCalls, [clb |-> tx.clb, err |-> "ECONNRESET",
                                                   url |-> tx.options["target"].url])
                  /\ events' = events
             ELSE /\ events' = Append(events, Emitted("error", "ECONNRESET",
                                                      tx.options["target"].url))
                  /\ clbCalls' = clbCalls]_vars

\* the request of a transaction with an error callback was destroyed by the
\* proxyTimeout and the callback was called with its ECONNRESET
C20_Witness ==
  /\ tx.phase = "open"
  /\ tx.destroyedBy = "proxyTimeout"
  /\ tx.hungUp # 0
  /\ ~tx.socketDestroyed
  /\ clbCalls # <<>>
-----------------------------------------------------------------------------
(* The ws transaction after the stream pass has returned: the response or   *)
(* the upgrade of the target request, the two sockets, the errors            *)

\* the chunks the upstream sends after the head (bounded)
MaxLen == 4
MaxChunks == 2

CRLF == <<"\r", "\n">>
S_colon == <<":", " ">>
S_space == <<" ">>
S_HTTP == <<"H", "T", "T", "P", "/">>
S_11 == <<"1", ".", "1">>
S_NotFound == <<"N", "o", "t", " ", "F", "o", "u", "n", "d">>
S_OK == <<"O", "K">>
S_connection == <<"c", "o", "n", "n", "e", "c", "t", "i", "o", "n">>
S_a1 == <<"a", "=", "1">>
S_b2 == <<"b", "=", "2">>
S_101 == <<"H", "T", "T", "P", "/", "1", ".", "1", " ", "1", "0", "1", " ",
           "S", "w", "i", "t", "c", "h", "i", "n", "g", " ",
           "P", "r", "o", "t", "o", "c", "o", "l", "s">>



\* value[1] + ',' + value[2] + ..., the string an array becomes
RECURSIVE ArrayToString(_)
ArrayToString(vs) ==
  IF vs = <<>> THEN <<>>
  ELSE IF Len(vs) = 1 THEN vs[1]
  ELSE vs[1] \o S_comma \o ArrayToString(Tail(vs))

RECURSIVE PushHeadersJoined(_, _, _)
PushHeadersJoined(head, headers, i) ==
  IF i > Len(headers) THEN head
  ELSE LET key == headers[i].key
           value == headers[i].value
       IN PushHeadersJoined(
            Append(head, key \o S_colon
                           \o (IF value.isArray THEN ArrayToString(value.v) ELSE value.v)),
            headers, i + 1)

\* Object.keys(headers).reduce(..., [line]): one line for a string value, one
\* line for each element of an array value; headers lists the keys in the
\* order Object.keys gives them, i counts from 1
RECURSIVE PushHeaders(_, _, _)
PushHeaders(head, headers, i) ==
  IF i > Len(headers) THEN head
  ELSE LET key == headers[i].key
           value == headers[i].value
       IN IF ~value.isArray
          THEN PushHeaders(Append(head, key \o S_colon \o value.v), headers, i + 1)
          ELSE PushHeaders(head \o [j \in 1..Len(value.v) |-> key \o S_colon \o value.v[j]],
                           headers, i + 1)

\* head.join('\r\n')
RECURSIVE Join(_)
Join(head) ==
  IF head = <<>> THEN <<>>
  ELSE IF Len(head) = 1 THEN head[1]
  ELSE head[1] \o CRLF \o Join(Tail(head))

\* createHttpHeader(line, headers)
createHttpHeader(line, headers) == Join(PushHeaders(<<line>>, headers, 1)) \o CRLF \o CRLF

\* what is written to a socket: who wrote it, and the text
Chunk(from, text) == [from |-> from, text |-> text]

\* the k-th chunk the upstream sends
UpstreamChunk(k) == Chunk("upstream", <<"#">> \o NumberToString(k))

\* the response of the target: res.upgrade is false in every response the
\* request emits, for a request with an upgrade listener emits upgrade instead
\* of response when the target switches protocols
IncomingMessage(httpVersion, statusCode, statusMessage, headers) ==
  [upgrade |-> FALSE, httpVersion |-> httpVersion, statusCode |-> statusCode,
   statusMessage |-> statusMessage, headers |-> headers]

NoMessage == IncomingMessage(S_empty, 0, S_empty, <<>>)

\* setupSocket(socket)
setupSocket(socket) ==
  [socket EXCEPT !.timeout = 0, !.noDelay = TRUE, !.keepAlive = TRUE]

\* the socket to the target before the upgrade hands it over
NoSocket ==
  [timeout |-> -1, noDelay |-> FALSE, keepAlive |-> FALSE, buffer |-> <<>>,
   endCalled |-> FALSE]

\* the transaction a ws() call leaves behind when its stream pass has run: the
\* client socket (what was written to it, whether end() was called on it,
\* whether it has emitted an error),
\* the answer of the target ("none", "response", "upgrade") and its message,
\* the socket and head of the upgrade, what the upstream has sent, whether it
\* has ended or failed, the number of errors so far
WsTransaction(call) ==
  [phase |-> "ws", clb |-> call.errorCallback, options |-> call.options,
   out |-> call.ctx.out, trace |-> call.ctx.trace, errors |-> 0,
   socket |-> [written |-> <<>>, ended |-> FALSE, errored |-> FALSE],
   response |-> "none", res |-> NoMessage, piped |-> FALSE,
   proxySocket |-> NoSocket, proxyHead |-> <<>>,
   upstream |-> [sent |-> <<>>, ended |-> FALSE, failed |-> FALSE]]

\* socket.write(chunk) on the client socket
SocketWrite(t, chunk) == [t EXCEPT !.socket.written = Append(@, chunk)]

\* socket.end() on the client socket
SocketEnd(t) == [t EXCEPT !.socket.ended = TRUE]

onOutgoingErrorNoEnd(w, err) ==
  IF w.tx.clb # "none"
  THEN [w EXCEPT !.clbCalls = Append(@, [clb |-> w.tx.clb, err |-> err, url |-> UndefinedV])]
  ELSE emit(w, "error", err, UndefinedV)

\* onOutgoingError(err): clb(err, req, socket) or server.emit('error', err,
\* req, socket), which has no fourth argument; then socket.end(), unless the
\* emit threw
onOutgoingError(w, err) ==
  LET reported ==
        IF w.tx.clb # "none"
        THEN [w EXCEPT !.clbCalls =
                Append(@, [clb |-> w.tx.clb, err |-> err, url |-> UndefinedV])]
        ELSE emit(w, "error", err, UndefinedV)
  IN IF reported.threw THEN reported
     ELSE [reported EXCEPT !.tx = SocketEnd(@)]

onWsResponseCrossPiped(t, res) ==
  LET arrived == [t EXCEPT !.response = "response", !.res = res]
      line == S_HTTP \o res.httpVersion \o S_space
                \o NumberToString(res.statusCode) \o S_space \o res.statusMessage
      written == SocketWrite(arrived, Chunk("proxy", createHttpHeader(line, res.headers)))
  IN [written EXCEPT !.piped = TRUE,
                     !.trace = @ \o <<Step("pipe", "res", "socket"),
                                       Step("pipe", "socket", "proxySocket")>>]

\* proxyReq.on('response'): if (!res.upgrade) { socket.write(createHttpHeader(
\* 'HTTP/' + res.httpVersion + ' ' + res.statusCode + ' ' + res.statusMessage,
\* res.headers)); res.pipe(socket); }
onWsResponse(t, res) ==
  LET arrived == [t EXCEPT !.response = "response", !.res = res]
  IN IF ~res.upgrade
     THEN LET line == S_HTTP \o res.httpVersion \o S_space
                        \o NumberToString(res.statusCode) \o S_space \o res.statusMessage
              written == SocketWrite(arrived, Chunk("proxy", createHttpHeader(line, res.headers)))
          IN [written EXCEPT !.piped = TRUE,
                             !.trace = Append(@, Step("pipe", "res", "socket"))]
     ELSE arrived

onUpgradeHeadFirst(w, proxyRes, proxyHead) ==
  LET arrived == [w EXCEPT !.tx.response = "upgrade", !.tx.res = proxyRes,
                           !.tx.proxyHead = proxyHead,
                           !.tx.proxySocket = setupSocket(@)]
      unshifted == IF proxyHead # <<>>
                   THEN [arrived EXCEPT !.tx = SocketWrite(@, Chunk("upstream", proxyHead)),
                                        !.tx.upstream.sent =
                                           Append(@, Chunk("upstream", proxyHead))]
                   ELSE arrived
      written == [unshifted EXCEPT !.tx =
                    SocketWrite(@, Chunk("proxy", createHttpHeader(S_101, proxyRes.headers)))]
      piped == [written EXCEPT !.tx.piped = TRUE,
                  !.tx.trace = @ \o <<Step("pipe", "proxySocket", "socket"),
                                      Step("pipe", "socket", "proxySocket")>>]
  IN emitStep(piped, "open")

\* proxyReq.on('upgrade'): the listeners of the two sockets, setupSocket, the
\* head put back on the upstream socket, the 101 header written to the client
\* socket, the two pipes, server.emit('open', proxySocket)
onUpgrade(w, proxyRes, proxyHead) ==
  LET arrived == [w EXCEPT !.tx.response = "upgrade", !.tx.res = proxyRes,
                           !.tx.proxyHead = proxyHead,
                           !.tx.proxySocket = setupSocket(@)]
      unshifted == IF proxyHead # <<>>
                   THEN [arrived EXCEPT !.tx.proxySocket.buffer =
                           <<Chunk("upstream", proxyHead)>> \o @]
                   ELSE arrived
      written == [unshifted EXCEPT !.tx =
                    SocketWrite(@, Chunk("proxy", createHttpHeader(S_101, proxyRes.headers)))]
      piped == [written EXCEPT !.tx.piped = TRUE,
                  !.tx.trace = @ \o <<Step("pipe", "proxySocket", "socket"),
                                      Step("pipe", "socket", "proxySocket")>>]
  IN emitStep(piped, "open")

\* a chunk read from the upstream (the response or the upstream socket): the
\* pipe writes it to the client socket unless end() was called on that
onUpstreamData(t, chunk) ==
  LET sent == [t EXCEPT !.upstream.sent = Append(@, chunk)]
  IN IF sent.piped /\ ~sent.socket.ended THEN SocketWrite(sent, chunk) ELSE sent

\* proxySocket.on('end'): server.emit('close', proxyRes, proxySocket,
\* proxyHead); the pipe ends the client socket
onProxySocketEnd(w) ==
  LET emitted == emitStep([w EXCEPT !.tx.upstream.ended = TRUE], "close")
  IN [emitted EXCEPT !.tx = SocketEnd(@)]

onSocketErrorIgnored(t) == t

\* socket.on('error', function () { proxySocket.end(); })
onSocketError(t) == [t EXCEPT !.proxySocket.endCalled = TRUE]

\* proxy.ws(req, socket, head, optionsOrCallback, callback), the first of the
\* behaviour; a call whose passes stop before stream leaves no transaction
WsStart(req, optionsOrCallback, callback) ==
  /\ tx.phase = "none"
  /\ \E r \in {WebSocketProxyHandler(1, servers[1].options, wsPassesOf(1), req,
                                    optionsOrCallback, callback)} :
        /\ thrown' = r.threw
        /\ lastCall' = r.call
        /\ IF r.threw = "" /\ r.call.ctx.out # <<>>
           THEN /\ tx' = WsTransaction(r.call)
                /\ events' = events \o r.call.ctx.events
           ELSE UNCHANGED <<tx, events>>
        /\ servers' = OptionsAfter(servers, 1, optionsOrCallback, r.call.ctx)
  /\ UNCHANGED <<arrays, clbCalls, listenerCalls, uncaught, invoked>>

\* proxyReq.emit('error', err): the request fails before the target answers
WsProxyReqError(err) ==
  /\ tx.phase = "ws"
  /\ tx.response = "none"
  /\ tx.errors = 0
  /\ \E w \in {onOutgoingError([World EXCEPT !.tx.errors = @ + 1], err)} : Commit(w)

\* proxyReq.emit('response', res)
WsProxyReqResponse(res) ==
  /\ tx.phase = "ws"
  /\ tx.response = "none"
  /\ tx.errors = 0
  /\ Proceed(onWsResponse(tx, res))

\* proxyReq.emit('upgrade', proxyRes, proxySocket, proxyHead)
WsProxyReqUpgrade(proxyRes, proxyHead) ==
  /\ tx.phase = "ws"
  /\ tx.response = "none"
  /\ tx.errors = 0
  /\ \E w \in {onUpgrade(World, proxyRes, proxyHead)} : Commit(w)

\* the upstream is still there
UpstreamOpen == tx.phase = "ws" /\ tx.response # "none" /\ ~tx.upstream.ended
                  /\ ~tx.upstream.failed

\* res or proxySocket emits data: what was put back on the socket first
UpstreamData ==
  /\ UpstreamOpen
  /\ IF tx.proxySocket.buffer # <<>>
     THEN Proceed(onUpstreamData([tx EXCEPT !.proxySocket.buffer = Tail(@)],
                                 Head(tx.proxySocket.buffer)))
     ELSE /\ Len(tx.upstream.sent) < MaxChunks
          /\ Proceed(onUpstreamData(tx, UpstreamChunk(Len(tx.upstream.sent) + 1)))

\* res emits end, after its data: the pipe ends the client socket
ResEnd ==
  /\ UpstreamOpen
  /\ tx.response = "response"
  /\ Proceed(SocketEnd([tx EXCEPT !.upstream.ended = TRUE]))

\* proxySocket emits end, after its data
ProxySocketEnd ==
  /\ UpstreamOpen
  /\ tx.response = "upgrade"
  /\ tx.proxySocket.buffer = <<>>
  /\ \E w \in {onProxySocketEnd(World)} : Commit(w)

\* proxySocket.emit('error', err); the socket is destroyed with it
ProxySocketError(err) ==
  /\ UpstreamOpen
  /\ tx.response = "upgrade"
  /\ tx.errors < MaxErrors
  /\ \E w \in {onOutgoingError([World EXCEPT !.tx.errors = @ + 1,
                                            !.tx.upstream.failed = TRUE], err)} :
       Commit(w)

\* socket.emit('error') of the client socket after the upgrade
SocketError ==
  /\ tx.phase = "ws"
  /\ tx.response = "upgrade"
  /\ ~tx.socket.errored
  /\ Proceed(onSocketError([tx EXCEPT !.socket.errored = TRUE]))

\* the options of the server of the ws transactions
WsOptions == {Options1("target", TargetStr)}

\* the optionsOrCallback and callback arguments of the ws() call
WsArguments ==
  { <<NoArgument, "none">>,
    <<FunctionArgument("clbA"), "none">> }

\* the upgrade requests of the clients
WsUpgradeRequests ==
  { Request("GET", Headers2("upgrade", S_websocket, "connection", S_Upgrade), FALSE),
    Request("POST", Headers1("upgrade", S_websocket), FALSE) }

\* the answers of the target that are not an upgrade
WsResponses ==
  { IncomingMessage(S_11, 404, S_NotFound, <<Header(S_connection, StringValue(S_close))>>),
    IncomingMessage(S_11, 200, S_OK,
                    <<Header(S_setcookie, ArrayValue(<<S_a1, S_b2>>)),
                      Header(S_connection, StringValue(S_keepalive))>>) }

\* the answers of the target that switch protocols, and the heads they carry
WsUpgrades ==
  { IncomingMessage(S_11, 101, S_empty,
                    <<Header(S_upgrade, StringValue(S_websocket)),
                      Header(S_setcookie, ArrayValue(<<S_a1, S_b2>>))>>) }

ProxyHeads == {<<>>, <<"h">>}

InitWs ==
  /\ \E o \in WsOptions :
       LET r == constructor(<<webIncomingPasses, websocketIncomingPasses>>, o)
       IN /\ arrays = r.heap
          /\ servers = <<r.server>>
  /\ thrown = ""
  /\ lastCall = [type |-> "new", server |-> 1]
  /\ WebIdle

NextWs ==
  \/ \E req \in WsUpgradeRequests, a \in WsArguments : WsStart(req, a[1], a[2])
  \/ \E once \in BOOLEAN : On(once)
  \/ \E err \in ErrorCodes : WsProxyReqError(err)
  \/ \E res \in WsResponses : WsProxyReqResponse(res)
  \/ \E proxyRes \in WsUpgrades, proxyHead \in ProxyHeads :
       WsProxyReqUpgrade(proxyRes, proxyHead)
  \/ UpstreamData
  \/ ResEnd
  \/ ProxySocketEnd
  \/ \E err \in ErrorCodes : ProxySocketError(err)
  \/ SocketError

SpecWs == InitWs /\ [][NextWs]_vars
-----------------------------------------------------------------------------
(* Properties of the ws transaction *)

\* the lines of a text, split at every CR LF
RECURSIVE SplitLines(_, _)
SplitLines(text, cur) ==
  IF text = <<>> THEN <<cur>>
  ELSE IF Len(text) >= 2 /\ text[1] = "\r" /\ text[2] = "\n"
       THEN <<cur>> \o SplitLines(SubSeq(text, 3, Len(text)), <<>>)
       ELSE SplitLines(Tail(text), Append(cur, text[1]))

\* the version, status code and reason phrase a status line reads as
StatusLineOf(line) ==
  LET i == IndexOf(line, " ")
      rest == SubSeq(line, i + 1, Len(line))
      j == IndexOf(rest, " ")
  IN [version |-> SubSeq(line, 1, i - 1),
      code |-> ParseNat(SubSeq(rest, 1, j - 1)),
      message |-> SubSeq(rest, j + 1, Len(rest))]

\* the name and value pairs of a message's headers, an array value giving one
\* pair for each of its elements, in order
RECURSIVE Elements(_)
Elements(headers) ==
  IF headers = <<>> THEN <<>>
  ELSE LET h == Head(headers)
       IN (IF h.value.isArray
           THEN [j \in 1..Len(h.value.v) |-> <<h.key, h.value.v[j]>>]
           ELSE <<<<h.key, h.value.v>>>>) \o Elements(Tail(headers))

\* the header block a chunk holds: a first line, one line "name: value" for
\* every pair of the headers, and an empty line that ends it
IsHeaderBlock(chunk, headers) ==
  LET lines == SplitLines(chunk.text, <<>>)
      elements == Elements(headers)
  IN /\ chunk.from = "proxy"
     /\ Len(lines) = 1 + Len(elements) + 2
     /\ \A n \in DOMAIN elements :
          lines[n + 1] = elements[n][1] \o S_colon \o elements[n][2]
     /\ lines[Len(lines) - 1] = <<>>
     /\ lines[Len(lines)] = <<>>

\* the first line of what a chunk holds
FirstLine(chunk) == SplitLines(chunk.text, <<>>)[1]

\* the chunks written to the client socket after the first
Relayed == SubSeq(tx.socket.written, 2, Len(tx.socket.written))

\* C14: in a ws transaction open is emitted once if the target has upgraded
\* and not otherwise, after both pipes were made; close is emitted once if the
\* upstream socket has ended and not otherwise, and after open; after an
\* upgrade the first chunk on the client socket is the proxy's header block,
\* whose first line is 'HTTP/1.1 101 Switching Protocols' and whose other
\* lines are the headers of the upstream response, and every chunk after it
\* is what the upstream socket sent, in the order it sent it.
C14_Upgrade ==
  tx.phase = "ws" =>
    /\ Count("open") = (IF tx.response = "upgrade" THEN 1 ELSE 0)
    /\ Count("close") = (IF tx.response = "upgrade" /\ tx.upstream.ended THEN 1 ELSE 0)
    /\ \A i \in EmitAt("open") :
         /\ \E p \in 1..(i - 1) : tx.trace[p] = Step("pipe", "proxySocket", "socket")
         /\ \E p \in 1..(i - 1) : tx.trace[p] = Step("pipe", "socket", "proxySocket")
    /\ \A j \in EmitAt("close") : \E i \in EmitAt("open") : i < j
    /\ tx.response = "upgrade" =>
         /\ tx.socket.written # <<>>
         /\ IsHeaderBlock(tx.socket.written[1], tx.res.headers)
         /\ FirstLine(tx.socket.written[1]) = S_101
         /\ Len(Relayed) <= Len(tx.upstream.sent)
         /\ Relayed = SubSeq(tx.upstream.sent, 1, Len(Relayed))

\* an upgrade that carried a head, after which the upstream socket sent more
\* and ended
C14_Witness ==
  /\ tx.phase = "ws" /\ tx.response = "upgrade"
  /\ tx.proxyHead # <<>>
  /\ Len(Relayed) >= 2
  /\ tx.upstream.ended
  /\ Count("close") = 1

\* C15: when the target has answered with an ordinary response, the first
\* chunk on the client socket is the proxy's header block: its first line
\* reads as HTTP/ and the version, the status code and the reason phrase of
\* the response, its other lines are the headers of the response, one for
\* each element of an array value; the chunks after it are the body the
\* response sent, in order; once the response has ended end() was called on
\* the client socket; no first line is the 101 line and open is not emitted.
C15_OrdinaryResponse ==
  (tx.phase = "ws" /\ tx.response = "response") =>
    /\ tx.socket.written # <<>>
    /\ IsHeaderBlock(tx.socket.written[1], tx.res.headers)
    /\ StatusLineOf(FirstLine(tx.socket.written[1])) =
         [version |-> S_HTTP \o tx.res.httpVersion, code |-> tx.res.statusCode,
          message |-> tx.res.statusMessage]
    /\ Relayed = tx.upstream.sent
    /\ tx.upstream.ended => tx.socket.ended
    /\ \A j \in DOMAIN tx.socket.written :
         tx.socket.written[j].from = "proxy" => FirstLine(tx.socket.written[j]) # S_101
    /\ Count("open") = 0

\* a response with an array-valued header whose body was relayed and ended
C15_Witness ==
  /\ tx.phase = "ws" /\ tx.response = "response"
  /\ \E i \in DOMAIN tx.res.headers : tx.res.headers[i].value.isArray
  /\ Len(Relayed) >= 1
  /\ tx.upstream.ended
  /\ tx.socket.ended

\* C16: the step in which the upstream request or the upstream socket emits
\* an error calls the error callback of the call with the error and no url,
\* or, when there is none, emits one 'error' event with them, never both; and
\* it leaves end() called on the client socket, unless the emit threw, which
\* leaves the client socket as it was.
C16_OneChannelThenEnd ==
  [][(tx.phase = "ws" /\ tx'.errors = tx.errors + 1) =>
       IF tx.clb # "none"
       THEN /\ \E err \in ErrorCodes :
                 clbCalls' = Append(clbCalls, [clb |-> tx.clb, err |-> err, url |-> UndefinedV])
            /\ events' = events
            /\ tx'.socket.ended
       ELSE /\ \E err \in ErrorCodes : events' = Append(events, Emitted("error", err, UndefinedV))
            /\ clbCalls' = clbCalls
            /\ IF uncaught' = uncaught THEN tx'.socket.ended
               ELSE tx'.socket.ended = tx.socket.ended]_vars

\* C16 as stated: after an error of the upstream request or the upstream
\* socket, end() has been called on the client socket.
C16_SocketAlwaysEnded ==
  (tx.phase = "ws" /\ tx.errors > 0) => tx.socket.ended

\* an error of the upstream socket was given to a listener of 'error' and the
\* client socket was ended
C16_Witness ==
  /\ tx.phase = "ws" /\ tx.response = "upgrade"
  /\ tx.errors > 0
  /\ tx.clb = "none"
  /\ listenerCalls # <<>>
  /\ uncaught = <<>>
  /\ tx.socket.ended

\* the two sockets are spliced
Upgraded == tx.phase = "ws" /\ tx.response = "upgrade"

\* C34: after an upgrade, an error of the client socket leaves end() called
\* on the upstream socket, and an error of the upstream socket leaves end()
\* called on the client socket exactly when reporting it did not throw: with
\* no error callback and no listener of 'error' but the default one the emit
\* throws, and the client socket is left as it was.
C34_ErrorEndsOtherSide ==
  Upgraded =>
    /\ tx.socket.errored => tx.proxySocket.endCalled
    /\ tx.upstream.failed => (tx.socket.ended <=> uncaught = <<>>)

\* C34 as stated: after an upgrade, whichever socket has emitted an error,
\* end() has been called on the other one.
C34_NeitherSideStaysOpen ==
  Upgraded =>
    /\ tx.socket.errored => tx.proxySocket.endCalled
    /\ tx.upstream.failed => tx.socket.ended

\* both sockets have emitted an error, the error of the upstream socket went
\* to the error callback, and end() has been called on both
C34_Witness ==
  /\ Upgraded
  /\ tx.socket.errored /\ tx.upstream.failed
  /\ tx.proxySocket.endCalled /\ tx.socket.ended
  /\ clbCalls # <<>>

\* the header blocks the proxy itself has written to the client socket
ProxyChunks == SelectSeq(tx.socket.written, LAMBDA c : c.from = "proxy")

\* a pipe was made from one of the two sockets to the other
CrossPiped ==
  \E p \in DOMAIN tx.trace :
    tx.trace[p] \in {Step("pipe", "proxySocket", "socket"),
                     Step("pipe", "socket", "proxySocket")}

\* C40: in a ws transaction the proxy writes at most one header block to the
\* client socket: none before the target has answered, the block of the
\* status line of the response after an ordinary response, the block of the
\* 101 line after an upgrade; the two sockets are piped to each other only
\* after an upgrade.
C40_OneStatusLine ==
  tx.phase = "ws" =>
    /\ Len(ProxyChunks) = (IF tx.response = "none" THEN 0 ELSE 1)
    /\ tx.response = "response" =>
         StatusLineOf(FirstLine(ProxyChunks[1])).code = tx.res.statusCode
    /\ tx.response = "upgrade" => FirstLine(ProxyChunks[1]) = S_101
    /\ CrossPiped => tx.response = "upgrade"

\* an ordinary response whose status line was written, whose body was
\* relayed and after which the client socket was ended
C40_Witness ==
  /\ tx.phase = "ws" /\ tx.response = "response"
  /\ Len(ProxyChunks) = 1
  /\ Len(tx.socket.written) > 1
  /\ tx.socket.ended
  /\ ~CrossPiped

-----------------------------------------------------------------------------
(* The functions of lib/common.ts and the header passes, called directly as *)
(* the unit tests call them: lastCall records the arguments of the last     *)
(* call and what it returned.                                               *)

\* a call that is about to be made, and the call made
Calling(fn, args) == [type |-> "calling", fn |-> fn, args |-> args]
Called(fn, args, ret) == [type |-> fn, args |-> args, ret |-> ret]

S_base == <<"/", "b">>
S_baseSlash == <<"/", "b", "/">>
S_ca == <<"C", "A">>
S_caSsl == <<"c", "a", "2">>
S_t == <<"t">>
S_tPort == <<"t", ":", "8", "0">>
S_8080 == <<"8", "0", "8", "0">>
S_notUpgrade == <<"k", "e", "e", "p", "-", "a", "l", "i", "v", "e", ",", " ",
                  "n", "o", "t", " ", "u", "p", "g", "r", "a", "d", "e">>
S_keepUpgrade == <<"k", "e", "e", "p", "-", "a", "l", "i", "v", "e", ",", " ",
                   "U", "p", "g", "r", "a", "d", "e">>
S_xyz == <<"x", "y", "z">>
S_httpA == S_http \o <<":", "/", "/", "a">>
S_httpsA == S_https \o <<":", "/", "/", "a">>
S_archived == S_http \o <<":", "/", "/", "a", "/">> \o S_http \o <<":", "/", "/", "b">>
S_queryUrl == <<"/", "?", "u", "=">> \o S_http \o <<":", "/", "/", "a", "/", "/", "?", "v">>

\* the protocols an upstream is given with; <<>> stands for none
Protocols ==
  {<<>>, S_http, S_ws, S_https, S_wss, S_http \o S_colonChar, S_ws \o S_colonChar,
   S_https \o S_colonChar, S_wss \o S_colonChar}

\* an upstream: a plain object with the properties that are given
Upstream(protocol, port, host, path, ca) ==
  LET given == [protocol |-> protocol, port |-> port, host |-> host, hostname |-> host,
                path |-> path, ca |-> ca]
  IN [k \in {x \in DOMAIN given : given[x] # <<>>} |-> given[k]]

OptionsFor(role, upstream) == Options1(role, [kind |-> "object", url |-> upstream])

RequestAt(url, headers) == [Request("GET", headers, FALSE) EXCEPT !.url = url]

Roles == {"target", "forward"}

Ssls == {Empty, Headers1("ca", S_caSsl), Headers1("key", S_xyz)}

\* the first arguments: a new object, or options.ssl when the options have one
Outgoings(options) ==
  {Another(Empty)} \cup (IF "ssl" \in DOMAIN options THEN {SslItself} ELSE {})

SetupCall(outgoing, options, req, forward) ==
  [outgoing |-> outgoing, options |-> options, req |-> req, forward |-> forward]

\* upstreams of every protocol, with a port and without, read as either role
PortCalls ==
  { SetupCall(Another(Empty), OptionsFor(role, Upstream(protocol, port, S_t, S_slash, <<>>)),
              RequestAt(S_slash, Headers1("host", S_host)), role) :
      role \in Roles, protocol \in Protocols, port \in {<<>>, S_8080} }

\* the values of a connection header; <<>> stands for none
Connections ==
  {<<>>, S_keepalive, S_upgrade, S_Upgrade, S_keepUpgrade, S_notUpgrade, S_xyz,
   S_upgrade \o <<" ", ",">> \o S_close}

ConnectionHeaders(c) ==
  IF c = <<>> THEN Headers1("host", S_host) ELSE Headers2("host", S_host, "connection", c)

\* requests with each connection header, options.headers with each or none,
\* with an agent and without
ConnectionCalls ==
  { SetupCall(Another(Empty),
              (IF agent THEN Options1("agent", TRUE) ELSE Empty)
                @@ (IF o = <<"-">> THEN Empty
                    ELSE Options1("headers", IF o = <<>> THEN Headers1("pro", S_xyz)
                                             ELSE Headers1("connection", o)))
                @@ OptionsFor("target", TargetUrl),
              RequestAt(S_slash, ConnectionHeaders(c)), "target") :
      c \in Connections, o \in Connections \cup {<<"-">>}, agent \in BOOLEAN }

Flag(k, v) == IF v = "unset" THEN Empty ELSE Options1(k, v = "true")

UpstreamPaths == {S_empty, S_slash, S_base, S_baseSlash, S_base \o <<"/", "/", "c">>}
RequestUrls ==
  {S_slash, <<"/", "a">>, <<"/", "a", "?", "b">>, <<"/", "/", "a">>,
   <<"/", "a", "?", "x", "=", "/", "/">>, S_httpA \o <<"/", "x", "?", "y">>,
   <<"/", "a", "#", "h">>}

\* upstream paths and request urls under prependPath, ignorePath and toProxy
PathCalls ==
  { SetupCall(Another(Empty),
              Flag("prependPath", prepend) @@ Flag("ignorePath", ignore)
                @@ Flag("toProxy", toProxy)
                @@ OptionsFor("target", Upstream(S_http \o S_colonChar, S_8080, S_t, path, <<>>)),
              RequestAt(u, Headers1("host", S_host)), "target") :
      path \in UpstreamPaths, u \in RequestUrls,
      prepend \in {"unset", "true", "false"}, ignore \in {"unset", "true"},
      toProxy \in {"unset", "true"} }

\* upstreams with a ca of their own and without, under options.ssl with a
\* ca, without one, or not set; the outgoing object a new one or options.ssl
CaOptions ==
  { ssl @@ OptionsFor(role, Upstream(S_https \o S_colonChar, <<>>, S_t, S_slash, ca)) :
      ssl \in {Empty} \cup {Options1("ssl", o) : o \in Ssls},
      ca \in {<<>>, S_ca}, role \in Roles }

CaCalls ==
  UNION { { SetupCall(outgoing, options, RequestAt(S_slash, Headers1("host", S_host)),
                      IF "forward" \in DOMAIN options THEN "forward" ELSE "target") :
              outgoing \in Outgoings(options) } :
          options \in CaOptions }

SetupCalls == PortCalls \cup ConnectionCalls \cup PathCalls \cup CaCalls

\* a header when it is given: Absent stands for no header
Absent == <<"-">>
Given(k, v) == IF v = Absent THEN Empty ELSE Headers1(k, v)

\* requests that carry x-forwarded headers already, or an empty one, or none,
\* with and without a Host header, over plain and encrypted connections
XHeadersCalls ==
  { [req |-> Request("GET",
                     Given("x-forwarded-for", for) @@ Given("x-forwarded-port", port)
                       @@ Given("x-forwarded-proto", proto)
                       @@ Given("x-forwarded-host", fhost) @@ Given("host", host),
                     encrypted),
     options |-> IF xfwd THEN Options1("xfwd", TRUE) ELSE Empty] :
      for \in {Absent, S_addr2, S_empty}, port \in {Absent, S_80},
      proto \in {Absent, S_http}, fhost \in {Absent, S_xyz},
      host \in {Absent, S_host, S_hostPort},
      encrypted \in BOOLEAN, xfwd \in BOOLEAN }

\* a clause of a cookie: ';', white space, the name of a property, '=', a value
Clause(space, name, value) == S_semicolon \o space \o name \o S_equals \o value

CookieClauses ==
  {S_empty, Clause(<<" ">>, S_domain, S_x), Clause(S_empty, S_DomainCaps, S_y),
   Clause(<<" ">>, S_path, S_slash), Clause(<<" ">>, S_domain, S_empty),
   Clause(<<" ">>, S_x \o S_domain, S_x), Clause(<<" ">>, S_xyz, S_empty)}

\* cookies of a pair and two clauses
Cookies == {<<"a", "=", "b">> \o c1 \o c2 : c1, c2 \in CookieClauses}

Config1(k, v) == [x \in {k} |-> v]

CookieConfigs ==
  {Empty, Config1(S_x, S_z), Config1(S_star, S_w), Config1(S_x, S_z) @@ Config1(S_star, S_w),
   Config1(S_star, S_empty), Config1(S_x, S_empty) @@ Config1(S_star, S_w),
   Config1(S_slash, S_base)}

\* Set-Cookie values: one cookie, or a list of two
CookieHeaders ==
  {StringValue(c) : c \in Cookies}
    \cup {ArrayValue(<<<<"a", "=", "b">> \o c1, <<"c", "=", "d">> \o c2>>) :
            c1, c2 \in {Clause(<<" ">>, S_domain, S_x), Clause(S_empty, S_DomainCaps, S_y)}}

RewriteCalls ==
  { [header |-> h, config |-> c, property |-> p] :
      h \in CookieHeaders, c \in CookieConfigs, p \in {S_domain, S_path} }

RewriteCookieProperty ==
  /\ lastCall.type = "calling"
  /\ lastCall.fn = "rewriteCookieProperty"
  /\ LET c == lastCall.args
     IN lastCall' = Called("rewriteCookieProperty", c,
                           rewriteCookieProperty(c.header, c.config, c.property))
  /\ UNCHANGED <<arrays, servers, thrown, webVars>>

S_xc == <<"x", "-", "c">>
S_XC == <<"X", "-", "C">>
S_SetCookie == <<"S", "e", "t", "-", "C", "o", "o", "k", "i", "e">>

\* cookieDomainRewrite and cookiePathRewrite: false, a string, or a mapping
FalseOption == [kind |-> "false"]
StringOption(s) == [kind |-> "string", str |-> s]
MapOption(m) == [kind |-> "object", map |-> m]
Option(k, v) == IF v.kind = "unset" THEN Empty ELSE Options1(k, v)

\* the headers of an upstream response: Set-Cookie, and another header whose
\* value reads like a cookie
WriteHeadersCalls ==
  { [headers |-> Config1(S_setcookie, cookie) @@ Config1(S_xc, other),
     rawHeaders |-> <<S_SetCookie, S_XC>>,
     options |-> Option("cookieDomainRewrite", domain) @@ Option("cookiePathRewrite", path)
                   @@ Flag("preserveHeaderKeyCase", preserve)] :
      cookie \in {StringValue(<<"a", "=", "b">> \o Clause(<<" ">>, S_domain, S_x)
                                \o Clause(<<" ">>, S_path, S_slash)),
                  StringValue(<<"a", "=", "b">> \o Clause(S_empty, S_DomainCaps, S_y)),
                  ArrayValue(<<<<"a", "=", "b">> \o Clause(<<" ">>, S_domain, S_x),
                               <<"c", "=", "d">> \o Clause(<<" ">>, S_path, S_slash)>>)},
      other \in {StringValue(<<"a", "=", "b">> \o Clause(<<" ">>, S_domain, S_x)),
                 StringValue(S_xyz)},
      domain \in {[kind |-> "unset"], FalseOption, StringOption(S_w), StringOption(S_empty),
                  MapOption(Config1(S_x, S_z))},
      path \in {[kind |-> "unset"], StringOption(S_base), MapOption(Config1(S_slash, S_empty))},
      preserve \in {"unset", "true"} }

WriteHeaders ==
  /\ lastCall.type = "calling"
  /\ lastCall.fn = "writeHeaders"
  /\ LET c == lastCall.args
     IN lastCall' = Called("writeHeaders", c,
                           [set |-> writeHeaders(c.headers, c.rawHeaders, c.options)])
  /\ UNCHANGED <<arrays, servers, thrown, webVars>>

S_location == S_http \o <<":", "/", "/", "t", ":", "8", "0", "8", "0", "/", "x">>
S_elsewhere == S_http \o <<":", "/", "/", "o", "/", "x">>
S_newHost == <<"n", ":", "1">>

Text(k, v) == IF v = Absent THEN Empty ELSE Options1(k, v)

StatusCodes == {200, 201, 301, 302, 303, 307, 308, 404}

\* responses of each status with a Location at the target, elsewhere, relative
\* or none, under each of the rewrite options, for each kind of target
RedirectCalls ==
  { [req |-> Request("GET", Given("host", host), FALSE),
     proxyRes |-> [statusCode |-> status, headers |-> Given("location", location)],
     options |-> Text("hostRewrite", hostRewrite) @@ Flag("autoRewrite", autoRewrite)
                   @@ Text("protocolRewrite", protocolRewrite)
                   @@ (IF target.kind = "unset" THEN Empty ELSE Options1("target", target))] :
      host \in {Absent, S_host}, status \in StatusCodes,
      location \in {Absent, S_location, S_elsewhere, <<"/", "x">>},
      hostRewrite \in {Absent, S_newHost}, autoRewrite \in {"unset", "true"},
      protocolRewrite \in {Absent, S_https},
      target \in {[kind |-> "unset"], UndefinedV, TargetStr, TargetObj, parse_url(TargetStr)} }

SetRedirectHostRewrite ==
  /\ lastCall.type = "calling"
  /\ lastCall.fn = "setRedirectHostRewrite"
  /\ LET c == lastCall.args
     IN lastCall' = Called("setRedirectHostRewrite", c,
                           setRedirectHostRewrite(c.req, c.proxyRes, c.options))
  /\ UNCHANGED <<arrays, servers, thrown, webVars>>

\* XHeaders of web-incoming, called directly: the headers of req afterwards
WebXHeaders ==
  /\ lastCall.type = "calling"
  /\ lastCall.fn = "web.XHeaders"
  /\ LET c == lastCall.args
     IN lastCall' = Called("web.XHeaders", c,
                           webXHeaders(NewContext(c.req), c.options).ctx.req.headers)
  /\ UNCHANGED <<arrays, servers, thrown, webVars>>

\* XHeaders of ws-incoming, called directly: the headers of req afterwards
WsXHeaders ==
  /\ lastCall.type = "calling"
  /\ lastCall.fn = "ws.XHeaders"
  /\ LET c == lastCall.args
     IN lastCall' = Called("ws.XHeaders", c,
                           wsXHeaders(NewContext(c.req), c.options).ctx.req.headers)
  /\ UNCHANGED <<arrays, servers, thrown, webVars>>

\* the strings of at most n characters of an alphabet
Strings(alphabet, n) == UNION {[1..k -> alphabet] : k \in 0..n}

\* the segments that come first, and the last segments: every short string of
\* slashes, question marks and a letter, and urls with a scheme
FirstSegments == {S_empty, S_slash, S_base, S_baseSlash, <<"/", "/", "b">>, S_httpA}
LastSegments ==
  Strings({"/", "?", "a"}, MaxLen)
    \cup {S_httpA, S_httpsA, S_archived, S_queryUrl, S_httpsA \o S_slash \o S_httpA}

UrlJoinCalls ==
  {<<first, last>> : first \in FirstSegments, last \in LastSegments}
    \cup {<<last>> : last \in LastSegments}
    \cup {<<S_slash, S_empty, last>> : last \in {S_base, S_empty, <<"?", "a">>}}

UrlJoin ==
  /\ lastCall.type = "calling"
  /\ lastCall.fn = "urlJoin"
  /\ lastCall' = Called("urlJoin", lastCall.args, urlJoin(lastCall.args.segments))
  /\ UNCHANGED <<arrays, servers, thrown, webVars>>

SetupOutgoing ==
  /\ lastCall.type = "calling"
  /\ lastCall.fn = "setupOutgoing"
  /\ LET c == lastCall.args
     IN lastCall' = Called("setupOutgoing", c,
                           setupOutgoing(c.outgoing, c.options, c.req, c.forward))
  /\ UNCHANGED <<arrays, servers, thrown, webVars>>

InitCommon ==
  /\ arrays = <<webIncomingPasses, websocketIncomingPasses>>
  /\ servers = <<>>
  /\ thrown = ""
  /\ lastCall \in {Calling("setupOutgoing", c) : c \in SetupCalls}
                  \cup {Calling("urlJoin", [segments |-> c]) : c \in UrlJoinCalls}
                  \cup {Calling(fn, c) : fn \in {"web.XHeaders", "ws.XHeaders"},
                                         c \in XHeadersCalls}
                  \cup {Calling("rewriteCookieProperty", c) : c \in RewriteCalls}
                  \cup {Calling("writeHeaders", c) : c \in WriteHeadersCalls}
                  \cup {Calling("setRedirectHostRewrite", c) : c \in RedirectCalls}
  /\ WebIdle

NextCommon ==
  \/ SetupOutgoing
  \/ UrlJoin
  \/ WebXHeaders
  \/ WsXHeaders
  \/ RewriteCookieProperty
  \/ WriteHeaders
  \/ SetRedirectHostRewrite

SpecCommon == InitCommon /\ [][NextCommon]_vars

-----------------------------------------------------------------------------
(* Claims about setupOutgoing *)

\* the upstream the last call of setupOutgoing selected
Selected == lastCall.args.options[lastCall.args.forward].url

\* C22: setupOutgoing uses an explicit port of the selected upstream as it is;
\* without one the port is 443 for the protocols https, wss, https: and wss:
\* and 80 for http, ws, http:, ws: and for an upstream without a protocol
C22_PortSelection ==
  lastCall.type = "setupOutgoing" =>
    LET port == lastCall.ret.outgoing["port"]
    IN IF "port" \in DOMAIN Selected THEN port = Selected["port"]
       ELSE IF "protocol" \notin DOMAIN Selected THEN port = 80
       ELSE /\ Selected["protocol"] \in {S_https, S_wss, S_https \o S_colonChar,
                                         S_wss \o S_colonChar} => port = 443
            /\ Selected["protocol"] \in {S_http, S_ws, S_http \o S_colonChar,
                                         S_ws \o S_colonChar} => port = 80

\* a forward upstream of protocol wss without a port was given the port 443
C22_Witness ==
  /\ lastCall.type = "setupOutgoing"
  /\ lastCall.args.forward = "forward"
  /\ "port" \notin DOMAIN Selected
  /\ "protocol" \in DOMAIN Selected
  /\ Selected["protocol"] = S_wss
  /\ lastCall.ret.outgoing["port"] = 443

\* whether upgrade is one of the comma-delimited tokens of a header value
HasUpgradeToken(value) ==
  LET tokens == Split(value, ",", <<>>)
  IN \E i \in DOMAIN tokens : toLowerCase(trim(tokens[i])) = S_upgrade

\* the headers the last call of setupOutgoing merged: those of the request
\* overridden by options.headers
MergedHeaders ==
  IF "headers" \in DOMAIN lastCall.args.options
  THEN Assign(lastCall.args.req.headers, lastCall.args.options["headers"])
  ELSE lastCall.args.req.headers

\* C23: without an agent the outgoing connection header is close, unless the
\* merged value has upgrade as a whole comma-delimited token in any case, and
\* then it is the merged value; with an agent the header is the merged one
C23_ConnectionHeader ==
  (lastCall.type = "setupOutgoing" /\ lastCall.ret.threw = "") =>
    LET headers == lastCall.ret.outgoing["headers"]
    IN IF FlagTruthy(lastCall.args.options, "agent")
       THEN /\ "connection" \in DOMAIN headers <=> "connection" \in DOMAIN MergedHeaders
            /\ "connection" \in DOMAIN headers =>
                 headers["connection"] = MergedHeaders["connection"]
       ELSE /\ "connection" \in DOMAIN headers
            /\ headers["connection"] =
                 IF "connection" \in DOMAIN MergedHeaders
                    /\ HasUpgradeToken(MergedHeaders["connection"])
                 THEN MergedHeaders["connection"]
                 ELSE S_close

\* without an agent, options.headers replaced the keep-alive of the request by
\* 'keep-alive, Upgrade', which was kept, letter case included
C23_Witness ==
  /\ lastCall.type = "setupOutgoing"
  /\ ~FlagTruthy(lastCall.args.options, "agent")
  /\ "connection" \in DOMAIN lastCall.args.req.headers
  /\ lastCall.args.req.headers["connection"] = S_keepalive
  /\ MergedHeaders["connection"] = S_keepUpgrade
  /\ lastCall.ret.outgoing["headers"]["connection"] = S_keepUpgrade

\* the path of the upstream the last call selected, '' when it has none
UpstreamPath == IF "path" \in DOMAIN Selected THEN Selected["path"] ELSE S_empty

\* the path and the query of the url of the request, or the url itself under toProxy
ClientPath ==
  IF FlagTruthy(lastCall.args.options, "toProxy") THEN lastCall.args.req.url
  ELSE parsePath(lastCall.args.req.url)

PrependPathFalse ==
  /\ "prependPath" \in DOMAIN lastCall.args.options
  /\ lastCall.args.options["prependPath"] = FALSE

\* a path urlJoin has nothing to change in: no run of slashes and no scheme
Plain(s) ==
  /\ Search(s, <<"/", "/">>) = 0
  /\ Search(s, S_http \o <<":", "/">>) = 0
  /\ Search(s, S_https \o <<":", "/">>) = 0

\* s up to its first question mark
BeforeQuery(s) == IF First(s, "?") = 0 THEN s ELSE SubSeq(s, 1, First(s, "?") - 1)

\* C25: the outgoing path is urlJoin of the upstream path ('' when prependPath
\* is false) and the client path ('' under ignorePath); ignorePath alone gives
\* the upstream path and prependPath false alone the client path, each as
\* urlJoin leaves it, which is unchanged when it has no run of slashes to
\* collapse; both together give ''
C25_PathComposition ==
  (lastCall.type = "setupOutgoing" /\ lastCall.ret.threw = "") =>
    LET path == lastCall.ret.outgoing["path"]
        ignorePath == FlagTruthy(lastCall.args.options, "ignorePath")
        targetPath == IF PrependPathFalse THEN S_empty ELSE UpstreamPath
        clientPath == IF ignorePath THEN S_empty ELSE ClientPath
    IN /\ path = urlJoin(<<targetPath, clientPath>>)
       /\ (ignorePath /\ ~PrependPathFalse) =>
            /\ path = urlJoin(<<UpstreamPath>>)
            /\ Plain(UpstreamPath) => path = UpstreamPath
       /\ (~ignorePath /\ PrependPathFalse) =>
            /\ path = urlJoin(<<ClientPath>>)
            /\ Plain(BeforeQuery(ClientPath)) => path = ClientPath
       /\ (ignorePath /\ PrependPathFalse) => path = S_empty

\* the statement of C25 as it was made: ignorePath alone gives exactly the
\* upstream path and prependPath false alone exactly the client path
C25_ExactPaths ==
  (lastCall.type = "setupOutgoing" /\ lastCall.ret.threw = "") =>
    LET path == lastCall.ret.outgoing["path"]
        ignorePath == FlagTruthy(lastCall.args.options, "ignorePath")
    IN /\ (ignorePath /\ ~PrependPathFalse) => path = UpstreamPath
       /\ (~ignorePath /\ PrependPathFalse) => path = ClientPath
       /\ (ignorePath /\ PrependPathFalse) => path = S_empty

\* with prependPath false and nothing else, the request for //a went out as /a
C25_Witness ==
  /\ lastCall.type = "setupOutgoing"
  /\ PrependPathFalse
  /\ ~FlagTruthy(lastCall.args.options, "ignorePath")
  /\ ~FlagTruthy(lastCall.args.options, "toProxy")
  /\ UpstreamPath = S_base
  /\ lastCall.args.req.url = <<"/", "/", "a">>
  /\ lastCall.ret.outgoing["path"] = <<"/", "a">>

\* C29: when options.ssl.ca is set, the ca of the object setupOutgoing
\* returns is options.ssl.ca, whether the outgoing object is a new one or
\* options.ssl itself
C29_SslCa ==
  (/\ lastCall.type = "setupOutgoing"
   /\ "ssl" \in DOMAIN lastCall.args.options
   /\ Truthy(lastCall.args.options["ssl"], "ca")) =>
    /\ "ca" \in DOMAIN lastCall.ret.outgoing
    /\ lastCall.ret.outgoing["ca"] = lastCall.args.options["ssl"]["ca"]

-----------------------------------------------------------------------------
(* Claims about XHeaders *)

\* what XHeaders reports: the address of the client, the port of the Host
\* header or of the kind of connection, and the protocol
Reported(req, plain, encrypted) ==
  [for |-> req.remoteAddress,
   port |-> IF HeaderTruthy(req.headers, "host") /\ MatchPort(req.headers["host"], 1) # <<>>
            THEN MatchPort(req.headers["host"], 1)
            ELSE IF req.encrypted THEN S_443 ELSE S_80,
   proto |-> IF req.encrypted THEN encrypted ELSE plain]

\* the value of a header after a value was added to its chain, if it had one
Chained(old, k, value) ==
  IF HeaderTruthy(old, k) THEN old[k] \o S_comma \o value ELSE value

\* C26: with xfwd, XHeaders gives x-forwarded-for, -port and -proto the new
\* value after a comma when the request had a (non-empty) header of the name
\* and the new value alone otherwise; the web pass reports http or https and
\* sets x-forwarded-host to its value or else to that of Host, the ws pass
\* reports ws or wss and leaves x-forwarded-host alone; without xfwd no header
\* changes
C26_XHeaders ==
  lastCall.type \in {"web.XHeaders", "ws.XHeaders"} =>
    LET old == lastCall.args.req.headers
        new == lastCall.ret
        web == lastCall.type = "web.XHeaders"
        values == IF web THEN Reported(lastCall.args.req, S_http, S_https)
                  ELSE Reported(lastCall.args.req, S_ws, S_wss)
        forwarded == {"x-forwarded-for", "x-forwarded-port", "x-forwarded-proto"}
    IN IF ~FlagTruthy(lastCall.args.options, "xfwd") THEN new = old
       ELSE /\ forwarded \subseteq DOMAIN new
            /\ new["x-forwarded-for"] = Chained(old, "x-forwarded-for", values.for)
            /\ new["x-forwarded-port"] = Chained(old, "x-forwarded-port", values.port)
            /\ new["x-forwarded-proto"] = Chained(old, "x-forwarded-proto", values.proto)
            /\ \A k \in DOMAIN old \ (forwarded \cup {"x-forwarded-host"}) :
                 k \in DOMAIN new /\ new[k] = old[k]
            /\ DOMAIN new \subseteq DOMAIN old \cup forwarded \cup {"x-forwarded-host"}
            /\ IF web
               THEN /\ "x-forwarded-host" \in DOMAIN new
                    /\ new["x-forwarded-host"] =
                         IF HeaderTruthy(old, "x-forwarded-host") THEN old["x-forwarded-host"]
                         ELSE IF HeaderTruthy(old, "host") THEN old["host"]
                         ELSE S_empty
               ELSE /\ "x-forwarded-host" \in DOMAIN new <=> "x-forwarded-host" \in DOMAIN old
                    /\ "x-forwarded-host" \in DOMAIN old =>
                         new["x-forwarded-host"] = old["x-forwarded-host"]

\* the ws pass, over an encrypted connection, added the address of the client
\* to the chain of x-forwarded-for, set the protocol wss, and set no host
C26_Witness ==
  /\ lastCall.type = "ws.XHeaders"
  /\ FlagTruthy(lastCall.args.options, "xfwd")
  /\ lastCall.args.req.encrypted
  /\ HeaderTruthy(lastCall.args.req.headers, "x-forwarded-for")
  /\ lastCall.ret["x-forwarded-for"] = S_addr2 \o S_comma \o S_addr
  /\ lastCall.ret["x-forwarded-proto"] = S_wss
  /\ "x-forwarded-host" \notin DOMAIN lastCall.ret

-----------------------------------------------------------------------------
(* Claims about rewriteCookieProperty and writeHeaders *)

\* whether a part of a cookie, between two semicolons, gives the property a
\* value: white space, the name in any case, '=', and at least one character
GivesProperty(part, property) ==
  LET name == SkipSpace(part, 1)
  IN /\ StartsWithLower(part, name, toLowerCase(property) \o S_equals)
     /\ name + Len(property) + 1 <= Len(part)

\* seq without its element p
Without(seq, p) == SubSeq(seq, 1, p - 1) \o SubSeq(seq, p + 1, Len(seq))

\* the cookie with the value of the property mapped: the first part after
\* the pair that gives the property a value gets config[value], or config['*'],
\* and is dropped with its semicolon when that is ''
Mapped(cookie, config, property) ==
  LET parts == Split(cookie, ";", <<>>)
      giving == {p \in 2..Len(parts) : GivesProperty(parts[p], property)}
  IN IF giving = {} THEN cookie
     ELSE LET p == CHOOSE g \in giving : \A h \in giving : g <= h
              at == SkipSpace(parts[p], 1) + Len(property) + 1
              value == SubSeq(parts[p], at, Len(parts[p]))
              key == IF value \in DOMAIN config THEN value ELSE S_star
          IN IF key \notin DOMAIN config THEN cookie
             ELSE IF config[key] = S_empty THEN JoinWith(Without(parts, p), S_semicolon)
             ELSE JoinWith([parts EXCEPT ![p] = SubSeq(@, 1, at - 1) \o config[key]],
                           S_semicolon)

MappedHeader(header, config, property) ==
  IF header.isArray
  THEN ArrayValue([i \in DOMAIN header.v |-> Mapped(header.v[i], config, property)])
  ELSE StringValue(Mapped(header.v, config, property))

\* the header after the rewriting an option asks for: none when the option is
\* not set or false, every value to the string when it is a string
MappedBy(header, options, k, property) ==
  IF k \notin DOMAIN options \/ options[k].kind = "false" THEN header
  ELSE IF options[k].kind = "string"
  THEN MappedHeader(header, Config1(S_star, options[k].str), property)
  ELSE MappedHeader(header, options[k].map, property)

\* C27: rewriteCookieProperty replaces the value of the property by
\* config[value], else by config['*'], else leaves the header as it is; an
\* empty replacement removes the clause with its semicolon; a list is
\* rewritten element by element; writeHeaders rewrites Set-Cookie only and
\* writes every other header with the value the upstream gave it
C27_CookieRewrite ==
  /\ lastCall.type = "rewriteCookieProperty" =>
       lastCall.ret = MappedHeader(lastCall.args.header, lastCall.args.config,
                                   lastCall.args.property)
  /\ lastCall.type = "writeHeaders" =>
       LET headers == lastCall.args.headers
           written == lastCall.ret.set
       IN /\ Cardinality(written) = Cardinality(DOMAIN headers)
          /\ \A key \in DOMAIN headers :
               \E h \in written :
                 /\ toLowerCase(h.key) = key
                 /\ h.value =
                      IF key = S_setcookie
                      THEN MappedBy(MappedBy(headers[key], lastCall.args.options,
                                             "cookieDomainRewrite", S_domain),
                                    lastCall.args.options, "cookiePathRewrite", S_path)
                      ELSE headers[key]

\* config['*'] = '' removed the clause Domain=y of a cookie
C27_Witness ==
  /\ lastCall.type = "rewriteCookieProperty"
  /\ lastCall.args.config = Config1(S_star, S_empty)
  /\ lastCall.args.property = S_domain
  /\ lastCall.args.header =
       StringValue(<<"a", "=", "b">> \o Clause(S_empty, S_DomainCaps, S_y)
                     \o Clause(<<" ">>, S_path, S_slash))
  /\ lastCall.ret = StringValue(<<"a", "=", "b">> \o Clause(<<" ">>, S_path, S_slash))

-----------------------------------------------------------------------------
(* Claims about setRedirectHostRewrite *)

\* the authority of an absolute url: what is between :// and the next slash
Authority(s) ==
  LET at == Search(s, <<":", "/", "/">>)
      rest == SubSeq(s, at + 3, Len(s))
      slash == First(rest, "/")
  IN IF at = 0 THEN Absent
     ELSE IF slash = 0 THEN rest ELSE SubSeq(rest, 1, slash - 1)

\* the host of the target of the options of the last call
TargetAuthority ==
  LET target == lastCall.args.options["target"]
  IN IF target.kind = "string" THEN Authority(target.str)
     ELSE IF "host" \in DOMAIN target.url THEN target.url["host"] ELSE Absent

\* C28: setRedirectHostRewrite leaves the Location header as it is unless one
\* of hostRewrite, autoRewrite and protocolRewrite is set, there is a target,
\* the status is 201, 301, 302, 307 or 308, and the response has a Location
\* whose host is the host of the target
C28_RedirectRewriteOnly ==
  lastCall.type = "setRedirectHostRewrite" =>
    LET old == lastCall.args.proxyRes.headers
        new == lastCall.ret.headers
        options == lastCall.args.options
    IN \/ new = old
       \/ /\ \/ "hostRewrite" \in DOMAIN options
              \/ "autoRewrite" \in DOMAIN options
              \/ "protocolRewrite" \in DOMAIN options
          /\ "target" \in DOMAIN options
          /\ options["target"].kind # "undefined"
          /\ "location" \in DOMAIN old
          /\ lastCall.args.proxyRes.statusCode \in {201, 301, 302, 307, 308}
          /\ Authority(old["location"]) = TargetAuthority

\* a 307 with a Location at the target had its host rewritten
C28_Witness ==
  /\ lastCall.type = "setRedirectHostRewrite"
  /\ lastCall.args.proxyRes.statusCode = 307
  /\ "hostRewrite" \in DOMAIN lastCall.args.options
  /\ "protocolRewrite" \notin DOMAIN lastCall.args.options
  /\ lastCall.args.proxyRes.headers = Given("location", S_location)
  /\ lastCall.ret.headers["location"] =
       S_http \o <<":", "/", "/">> \o S_newHost \o <<"/", "x">>

-----------------------------------------------------------------------------
(* Claims about urlJoin *)

\* the number of slashes s starts with
RECURSIVE RunLength(_)
RunLength(s) == IF s # <<>> /\ Head(s) = "/" THEN 1 + RunLength(Tail(s)) ELSE 0

EndsWith(s, w) == Len(w) <= Len(s) /\ SubSeq(s, Len(s) - Len(w) + 1, Len(s)) = w

\* s with every run of slashes made one slash, except that a run after http:
\* or https: is made two; a single slash there is doubled when double is TRUE
RECURSIVE Normal(_, _, _)
Normal(s, out, double) ==
  IF s = <<>> THEN out
  ELSE IF Head(s) # "/" THEN Normal(Tail(s), Append(out, Head(s)), double)
  ELSE LET r == RunLength(s)
           scheme == EndsWith(out, S_http \o S_colonChar)
                       \/ EndsWith(out, S_https \o S_colonChar)
       IN Normal(SubSeq(s, r + 1, Len(s)),
                 out \o (IF scheme /\ (r >= 2 \/ double) THEN <<"/", "/">> ELSE S_slash),
                 double)

\* the segments of the last call of urlJoin, the last one without its query
PathSegments ==
  LET args == lastCall.args.segments
      q == First(args[Len(args)], "?")
  IN IF q = 0 THEN args
     ELSE [args EXCEPT ![Len(args)] = SubSeq(@, 1, q - 1)]

\* the last segment of the last call of urlJoin from its first question mark on
QueryPart ==
  LET last == lastCall.args.segments[Len(lastCall.args.segments)]
      q == First(last, "?")
  IN IF q = 0 THEN S_empty ELSE SubSeq(last, q, Len(last))

\* C24: the result of urlJoin is the non-empty segments joined by a slash,
\* with the runs of slashes collapsed to one except for the two slashes after
\* http: and https:, followed by the last segment from its first question mark
\* on, unchanged; without a question mark there nothing is added
C24_QueryUntouched ==
  lastCall.type = "urlJoin" =>
    LET joined == JoinWith(SelectSeq(PathSegments, LAMBDA a : a # S_empty), S_slash)
    IN \E double \in BOOLEAN :
         lastCall.ret = Normal(joined, S_empty, double) \o QueryPart

-----------------------------------------------------------------------------
(* Calls on an instance whose options hold an ssl object *)

SharedOptions ==
  { Put(Options1("target", TargetStr), "ssl", Headers1("ca", S_caSsl)),
    Put(Put(Options1("target", TargetObj), "forward", ForwardStr), "ssl",
        Headers2("key", S_xyz, "cert", S_x)),
    Put(Options1("forward", ForwardObj), "ssl", Empty),
    Put(Options1("target", TargetStr), "xfwd", TRUE) }

SharedArguments ==
  { <<NoArgument, "none">>,
    <<OptionsArgument(Options1("target", ForwardStr)), "none">>,
    <<OptionsArgument(Options1("ssl", Headers1("ca", S_ca))), "clbB">>,
    <<OptionsArgument(Options1("auth", S_xyz)), "none">>,
    <<OptionsArgument(Put(Options1("forward", UndefinedV), "xfwd", TRUE)), "none">> }

InitShared ==
  /\ \E o \in SharedOptions :
       LET r == constructor(<<webIncomingPasses, websocketIncomingPasses>>, o)
       IN /\ arrays = r.heap
          /\ servers = <<r.server>>
  /\ thrown = ""
  /\ lastCall = [type |-> "new", server |-> 1]
  /\ WebIdle

NextShared ==
  \/ \E req \in WebRequests, a \in SharedArguments : Web(1, req, a[1], a[2])
  \/ \E req \in WsRequests, a \in SharedArguments : Ws(1, req, a[1], a[2])

SpecShared == InitShared /\ [][NextShared]_vars

\* C30: the options the passes of a call were given are the options of the
\* instance overridden key by key by the options of the call, a string target
\* or forward parsed; and they are so for the options of the instance as they
\* are after the call, which the call has left as they were
C30_OptionsMergedAndKept ==
  lastCall.type \in {"web", "ws"} =>
    LET global == servers[lastCall.server].options
        perCall == RequestOptions(lastCall.optionsOrCallback)
        seen == lastCall.options
    IN /\ DOMAIN seen = DOMAIN global \cup DOMAIN perCall
       /\ \A k \in DOMAIN seen :
            LET v == IF k \in DOMAIN perCall THEN perCall[k] ELSE global[k]
            IN IF k \in {"target", "forward"}
               THEN seen[k] = IF v.kind = "string" THEN parse_url(v) ELSE v
               ELSE IF k = "ssl"
               THEN /\ DOMAIN seen[k] = DOMAIN v
                    /\ \A x \in DOMAIN v : seen[k][x] = v[x]
               ELSE seen[k] = v

\* the ssl object the caller gave for the call recorded: the one of the
\* per-call options, or else the one the instance was constructed with
ConfiguredSsl ==
  IF "ssl" \in DOMAIN PerCall THEN PerCall["ssl"]
  ELSE (CHOOSE o \in SharedOptions :
          /\ "ssl" \in DOMAIN o
          /\ \A k \in DOMAIN o \ {"ssl"} :
               /\ k \in DOMAIN servers[lastCall.server].options
               /\ servers[lastCall.server].options[k] = o[k])["ssl"]

\* C35: every upstream request descriptor of a call whose options hold an ssl
\* object is the descriptor setupOutgoing builds from the merged options of
\* the call, with the ssl object as the caller gave it, and the client
\* request: nothing an earlier descriptor was given shows in it.
C35_DescriptorsIndependent ==
  (CallMade /\ "ssl" \in DOMAIN lastCall.options) =>
    \A i \in DOMAIN lastCall.ctx.out :
      lastCall.ctx.out[i].outgoing =
        setupOutgoing(SslItself, Put(lastCall.options, "ssl", ConfiguredSsl),
                      lastCall.ctx.req, lastCall.ctx.out[i].role).outgoing

-----------------------------------------------------------------------------
(* The errors of the upstream in web transactions and in ws transactions    *)

InitErrors == InitWeb

NextErrors ==
  \/ NextWeb
  \/ \E req \in WsUpgradeRequests, a \in WsArguments : WsStart(req, a[1], a[2])
  \/ \E err \in ErrorCodes : WsProxyReqError(err)
  \/ \E res \in WsResponses : WsProxyReqResponse(res)
  \/ \E proxyRes \in WsUpgrades, proxyHead \in ProxyHeads :
       WsProxyReqUpgrade(proxyRes, proxyHead)
  \/ UpstreamData
  \/ ResEnd
  \/ ProxySocketEnd
  \/ \E err \in ErrorCodes : ProxySocketError(err)
  \/ SocketError

SpecErrors == InitErrors /\ [][NextErrors]_vars

\* a step in which an upstream request or an upstream socket emits 'error'
UpstreamErrorStep ==
  /\ tx'.errors = tx.errors + 1
  /\ tx.phase = "open" => Len(invoked') = Len(invoked) + 1 /\
                           invoked'[Len(invoked')].source # "req"

\* C37 as stated: an upstream error of a web transaction leaves the client
\* response as it was, and an upstream error of a ws transaction leaves the
\* client socket ended
C37_ResponseLeftSocketEnded ==
  [][UpstreamErrorStep =>
       IF tx.phase = "open" THEN tx'.res = tx.res ELSE tx'.socket.ended]_vars

\* C37: an upstream error of a web transaction leaves the client response as
\* it was; an upstream error of a ws transaction leaves the client socket
\* ended unless the 'error' event threw the error out of the handler
C37_ResponseLeft ==
  [][UpstreamErrorStep =>
       IF tx.phase = "open" THEN tx'.res = tx.res
       ELSE tx'.socket.ended \/ uncaught' # uncaught]_vars

\* a web transaction whose target request failed twice, once reported and
\* once swallowed as econnreset, and whose client response is still open
C37_Witness ==
  /\ tx.phase = "open"
  /\ \E i \in DOMAIN invoked : invoked[i].source = "proxyReq" /\ Swallowed(invoked[i])
  /\ \E i \in DOMAIN invoked : invoked[i].source = "proxyReq" /\ ~Swallowed(invoked[i])
  /\ ~tx.res.finished /\ ~tx.res.destroyed

-----------------------------------------------------------------------------
(* The client of the upstream request and the protocol of the upstream      *)

\* the protocols of the upstreams of the calls
ClientProtocols ==
  {S_http \o S_colonChar, S_https \o S_colonChar, S_https, S_ws \o S_colonChar,
   S_wss \o S_colonChar}

\* the options of the server: a target or a forward given as an object, with
\* a port or without one
ClientOptions ==
  { OptionsFor(role, Upstream(p, port, S_t, S_slash, <<>>)) :
      role \in Roles, p \in ClientProtocols, port \in {<<>>, S_8080} }

ClientArguments ==
  { <<NoArgument, "none">>,
    <<OptionsArgument(Options1("secure", FALSE)), "clbA">> }

InitClient ==
  /\ \E o \in ClientOptions :
       LET r == constructor(<<webIncomingPasses, websocketIncomingPasses>>, o)
       IN /\ arrays = r.heap
          /\ servers = <<r.server>>
  /\ thrown = ""
  /\ lastCall = [type |-> "new", server |-> 1]
  /\ WebIdle

NextClient ==
  \/ \E req \in WebRequests, a \in ClientArguments : Web(1, req, a[1], a[2])
  \/ \E req \in WsRequests, a \in ClientArguments : Ws(1, req, a[1], a[2])

SpecClient == InitClient /\ [][NextClient]_vars

\* setupOutgoing treated the upstream of a request as TLS: it set
\* rejectUnauthorized, and the port is 443 when the upstream names none
TreatedAsTls(e) ==
  \/ "rejectUnauthorized" \in DOMAIN e.outgoing
  \/ ~Truthy(e.url, "port") /\ e.outgoing["port"] = 443

\* C38: every request of a web() call whose upstream setupOutgoing treated as
\* TLS is made with the https client
C38_ClientAgreesWithTls ==
  (CallMade /\ lastCall.type = "web") =>
    \A i \in DOMAIN lastCall.ctx.out :
      TreatedAsTls(lastCall.ctx.out[i]) => lastCall.ctx.out[i].client = "https"

\* the same of the requests of the ws() calls
WsClientAgreesWithTls ==
  (CallMade /\ lastCall.type = "ws") =>
    \A i \in DOMAIN lastCall.ctx.out :
      TreatedAsTls(lastCall.ctx.out[i]) <=> lastCall.ctx.out[i].client = "https"

\* the same of the requests of the web() calls to the protocols with a colon
WebClientAgreesWithColon ==
  (CallMade /\ lastCall.type = "web") =>
    \A i \in DOMAIN lastCall.ctx.out :
      ProtocolOf(lastCall.ctx.out[i].url)
          \in {S_http \o S_colonChar, S_https \o S_colonChar} =>
        (TreatedAsTls(lastCall.ctx.out[i]) <=> lastCall.ctx.out[i].client = "https")

-----------------------------------------------------------------------------
(* after and before on lists that hold several passes of one name           *)

\* a function of the caller that has the name of a built-in pass, and one
\* that has a name of its own
P_userStream == Pass("userCont", "stream")
NamedCallbacks == {P_userCont, P_userStream}

\* new ProxyServer()
InitNames ==
  /\ LET r == constructor(<<webIncomingPasses, websocketIncomingPasses>>, Empty)
     IN /\ arrays = r.heap
        /\ servers = <<r.server>>
  /\ thrown = ""
  /\ lastCall = [type |-> "new", server |-> 1]
  /\ WebIdle

NextNames ==
  \/ /\ Inserted < MaxInserts
     /\ \E type \in Kinds, f \in NamedCallbacks :
          \E n \in PassNames(PassesOf(1, type)) : After(1, type, n, f)
  \/ /\ Inserted < MaxInserts
     /\ \E type \in Kinds, f \in NamedCallbacks :
          \E n \in PassNames(PassesOf(1, type)) : Before(1, type, n, f)

SpecNames == InitNames /\ [][NextNames]_vars

\* the highest index (counted from 1) of a pass of the name
LastNamed(passes, passName) ==
  CHOOSE i \in Named(passes, passName) : \A j \in Named(passes, passName) : j <= i

\* C31: before() and after() called with a name that one or more passes of
\* the selected list have splice the callback at the index of the last pass
\* of that name: that pass follows the callback at once, every pass before it,
\* the earlier passes of the name among them, stays at its index, and the
\* passes after it keep their order.
C31_LastMatch ==
  (/\ lastCall.type \in {"before", "after"}
   /\ Named(lastCall.passes, lastCall.passName) # {}) =>
    LET old == lastCall.passes
        new == PassesOf(lastCall.server, lastCall.kind)
        last == LastNamed(old, lastCall.passName)
    IN /\ thrown = ""
       /\ InsertedAt(old, new, last, lastCall.callback)
       /\ new[last + 1] = old[last]
       /\ \A j \in Named(old, lastCall.passName) \ {last} : j < last /\ new[j] = old[j]

\* after() was called with a name that two passes of the list had, and the
\* callback went between them
C31_Witness ==
  /\ lastCall.type = "after"
  /\ thrown = ""
  /\ Cardinality(Named(lastCall.passes, lastCall.passName)) = 2
  /\ \E i \in 2..Len(lastCall.passes) :
       /\ PassesOf(lastCall.server, lastCall.kind)[i] = lastCall.callback
       /\ PassesOf(lastCall.server, lastCall.kind)[i - 1].name = lastCall.passName
       /\ PassesOf(lastCall.server, lastCall.kind)[i + 1].name = lastCall.passName

-----------------------------------------------------------------------------
(* The body of the client request and the socket of the target request      *)

\* the number of chunks the pipe has written into proxyReq
Written(t) ==
  Cardinality({i \in DOMAIN t.trace : t.trace[i].op = "write" /\ t.trace[i].b = "proxyReq"})

\* whether proxyReq holds bytes it has not passed to its socket
Pending(t) ==
  \E i \in DOMAIN t.trace :
    /\ t.trace[i].op \in {"write", "end"} /\ t.trace[i].b = "proxyReq"
    /\ \A j \in DOMAIN t.trace : j > i => t.trace[j] # Step("flush", "proxyReq", "socket")

\* (options.buffer || req).pipe(proxyReq): a chunk of the body is written
\* into proxyReq
onBodyData(t) ==
  [t EXCEPT !.trace = Append(@, Step("write", BodySource(t.options), "proxyReq"))]

\* the body ends and the pipe ends proxyReq
onBodyEnd(t) ==
  [t EXCEPT !.trace = Append(@, Step("end", BodySource(t.options), "proxyReq"))]

\* proxyReq passes what it holds to its socket
onFlush(t) == [t EXCEPT !.trace = Append(@, Step("flush", "proxyReq", "socket"))]

BodyEnded(t) ==
  \E i \in DOMAIN t.trace : t.trace[i].op = "end" /\ t.trace[i].b = "proxyReq"

\* the socket of a request follows its creation before the body flows, unless
\* the request waits in the queue of options.agent for a free socket
BodyFlows == tx.socket \/ FlagTruthy(tx.options, "agent")

BodyData ==
  /\ tx.phase = "open"
  /\ HasListener("proxyReq")
  /\ "proxyReq" \notin tx.destroyed
  /\ BodyFlows
  /\ ~BodyEnded(tx)
  /\ Written(tx) < MaxChunks
  /\ Proceed(onBodyData(tx))

BodyEnd ==
  /\ tx.phase = "open"
  /\ HasListener("proxyReq")
  /\ "proxyReq" \notin tx.destroyed
  /\ BodyFlows
  /\ ~BodyEnded(tx)
  /\ Proceed(onBodyEnd(tx))

ProxyReqFlush ==
  /\ tx.phase = "open"
  /\ tx.socket
  /\ uncaught = <<>>
  /\ Pending(tx)
  /\ Proceed(onFlush(tx))

\* the options of the server: a target, and a target reached through an agent
SocketOptions ==
  { Options1("target", TargetStr),
    Put(Options1("target", TargetStr), "agent", TRUE),
    Put(Put(Options1("target", TargetObj), "agent", TRUE), "buffer", TRUE) }

InitSocket ==
  /\ \E o \in SocketOptions :
       LET r == constructor(<<webIncomingPasses, websocketIncomingPasses>>, o)
       IN /\ arrays = r.heap
          /\ servers = <<r.server>>
  /\ thrown = ""
  /\ lastCall = [type |-> "new", server |-> 1]
  /\ WebIdle

NextSocket ==
  \/ \E req \in LifeRequests, a \in LifeArguments : WebStart(req, a[1], a[2])
  \/ \E act \in {"none", "setHeader"} : ProxyReqSocket(act)
  \/ BodyData
  \/ BodyEnd
  \/ ProxyReqFlush

SpecSocket == InitSocket /\ [][NextSocket]_vars

\* the positions of the trace at which bytes went to the socket of proxyReq
FlushAt == {i \in DOMAIN tx.trace : tx.trace[i] = Step("flush", "proxyReq", "socket")}

\* the positions of the trace at which a listener of proxyReq set a header
SetHeaderAt == {i \in DOMAIN tx.trace : tx.trace[i].op = "setHeader"}

ExpectSet == HeaderTruthy(TargetRequest(tx).outgoing["headers"], "expect")

\* proxyReq is emitted once at the socket event of a request without an
\* Expect header and never for one with it, and before any byte of the
\* request goes to the socket
EmittedAtSocket ==
  /\ Cardinality(EmitAt("proxyReq")) = IF tx.socket /\ ~ExpectSet THEN 1 ELSE 0
  /\ \A i \in EmitAt("proxyReq"), j \in FlushAt : i < j

\* C32: in a web transaction with a target, proxyReq is emitted at the socket
\* event of the target request if and only if the request has no Expect
\* header, before any byte of the request goes upstream, and every header a
\* listener of proxyReq sets is set on the request that is sent.
C32_ProxyReqBeforeBytes ==
  HasTarget =>
    /\ EmittedAtSocket
    /\ \A i \in SetHeaderAt : tx.trace[i].b = ""

-----------------------------------------------------------------------------
(* The response of the target and the passes of web-outgoing                *)

\* the options of the server: a target given as a string or as an object,
\* with and without the rewriting of redirects, and selfHandleResponse
ResponseOptions ==
  { Options1("target", TargetStr),
    Put(Options1("target", TargetStr), "autoRewrite", TRUE),
    Put(Options1("target", TargetObj), "autoRewrite", TRUE),
    Put(Options1("target", TargetObj), "selfHandleResponse", TRUE) }

\* the responses of the target: 200, and a redirect to a URL of the target
TargetResponses ==
  { [statusCode |-> 200, headers |-> Empty],
    [statusCode |-> 302, headers |-> Options1("location", S_location)] }

InitResponse ==
  /\ \E o \in ResponseOptions :
       LET r == constructor(<<webIncomingPasses, websocketIncomingPasses>>, o)
       IN /\ arrays = r.heap
          /\ servers = <<r.server>>
  /\ thrown = ""
  /\ lastCall = [type |-> "new", server |-> 1]
  /\ WebIdle

NextResponse ==
  \/ \E req \in LifeRequests, a \in LifeArguments : WebStart(req, a[1], a[2])
  \/ \E act \in {"none", "end"} : ProxyReqSocket(act)
  \/ \E act \in ListenerActs, proxyRes \in TargetResponses : ProxyReqResponse(act, proxyRes)
  \/ ProxyResEnd

SpecResponse == InitResponse /\ [][NextResponse]_vars

\* the web-outgoing passes called so far, in the order of their calls
PassesCalled ==
  LET calls == SelectSeq(tx.trace, LAMBDA s : s.op = "pass")
  IN [i \in DOMAIN calls |-> calls[i].a]

\* the handler of response has run and nothing has touched the client
\* response since
ResponseHandled == HasTarget /\ tx.response = "arrived" /\ ~tx.bodyEnded

\* C33: once the handler of the upstream response has run, the web-outgoing
\* passes called are removeChunked, setConnection, setRedirectHostRewrite,
\* writeHeaders, writeStatusCode, in that order, if the headers of the client
\* response were not sent and selfHandleResponse is not set, and none
\* otherwise.
C33_OutgoingPassesRun ==
  ResponseHandled =>
    PassesCalled = IF ~tx.res.headersSent /\ ~SelfHandled(tx.options)
                   THEN <<"removeChunked", "setConnection", "setRedirectHostRewrite",
                          "writeHeaders", "writeStatusCode">>
                   ELSE <<>>

OutgoingPassesRunUnlessThrown == uncaught = <<>> => C33_OutgoingPassesRun

====
